---- MODULE Spec2Model ----
(***************************************************************************)
(* State-machine model of the settlement simulation in src/App.tsx (first  *)
(* App component, lines 1-616) with the constants of src/constants.tsx     *)
(* (second block, lines 97-198).                                           *)
(*                                                                         *)
(* Conventions                                                             *)
(*  - A React state variable (grid, stats, enemies, boats, currentGoal,    *)
(*    newsFeed) holds the value obtained by applying every queued update   *)
(*    in order.  A ref (gridRef, statsRef, enemiesRef, goalRef) holds the  *)
(*    value stored by the last run of its useEffect (App.tsx 113-118).     *)
(*    The updates of a command (a click: a discrete input event) are       *)
(*    rendered and their effects run before the command returns, so the    *)
(*    command's action refreshes the refs of the states it updated.  The   *)
(*    updates of a timer callback or of a promise continuation are         *)
(*    rendered later: until action SyncRefs runs the refs lag behind.      *)
(*  - landValue is held in hundredths (1.0 = 100); positions of hostiles   *)
(*    and explorers are held in tenths of a tile (0.1 = 1).  Arithmetic is *)
(*    exact (no binary floating-point rounding).                           *)
(*  - Tile objects are shared between the published grid and the grid a    *)
(*    ref still holds; the explorers' in-place write of explored is        *)
(*    applied to both.                                                     *)
(*  - weather and variant are cosmetic and are left out.                   *)
(***************************************************************************)
EXTENDS Integers, Sequences, FiniteSets, TLC

VARIABLES
    gameStarted,   \* useState(false)                      App.tsx 86
    aiEnabled,     \* useState(true)                       App.tsx 87
    selectedTool,  \* useState(BuildingType.Road)          App.tsx 98
    grid,          \* useState(createInitialGrid)          App.tsx 89
    gridRef,       \* useRef(grid)                         App.tsx 106
    stats,         \* useState({...INITIAL_STATS, ...})    App.tsx 90
    statsRef,      \* useRef(stats)                        App.tsx 107
    enemies,       \* useState([])                         App.tsx 96
    enemiesRef,    \* useRef(enemies)                      App.tsx 108
    boats,         \* useState([])                         App.tsx 97
    currentGoal,   \* useState(null)                       App.tsx 102
    goalRef,       \* useRef(currentGoal)                  App.tsx 110
    goalFetch,     \* position of fetchNewGoal             App.tsx 124-136
    newsFeed,      \* useState([])                         App.tsx 104
    nextId,        \* number of hostiles created so far (their ids)
    steps,         \* handler runs left to the exploration (its bound)
    last           \* the handler that ran last (a step that lowers steps) and its outcome

vars == <<gameStarted, aiEnabled, selectedTool, grid, gridRef, stats, statsRef,
          enemies, enemiesRef, boats, currentGoal, goalRef, goalFetch, newsFeed,
          nextId, steps, last>>

----------------------------------------------------------------------------
(* Bounds of the exploration *)

\* side of the square grid (the program sets 20, constants.tsx 104)
GRID_SIZE == 4
\* handler runs explored from the construction state
MaxSteps == 4
\* handler runs explored from a mid-session state
MaxMidSteps == 3
\* hostiles created in one exploration
MaxSpawns == 2
\* handler runs explored from the settlement under attack
MaxHostileSteps == 4

----------------------------------------------------------------------------
(* Program constants *)

UPGRADE_NUM == 3             \* UPGRADE_MULTIPLIER = 1.5 = 3/2
UPGRADE_DEN == 2
DEMOLISH_COST == 5
DEMOLISH_WOOD_BONUS == 10
MAX_LEVEL == 3
ENEMY_CAP == 10
ENEMY_BASE_HP == 50
ENEMY_FUTURE_HP == 200
CLICK_DAMAGE == 20
TURRET_DAMAGE == 5
ATTACK_COOLDOWN == 5
THEFT_MONEY == 10
THEFT_FOOD == 5
STARVE_PENALTY == 5
NEWS_KEEP == 12

Max(a, b) == IF a >= b THEN a ELSE b
Min(a, b) == IF a <= b THEN a ELSE b
Abs(a) == IF a >= 0 THEN a ELSE 0 - a
Sign(a) == IF a > 0 THEN 1 ELSE IF a < 0 THEN 0 - 1 ELSE 0

----------------------------------------------------------------------------
(* The coordinates of an explorer are JavaScript numbers: IEEE 754 doubles.
   An explorer starts on a tile and moves by 0.2 per axis and tick (App.tsx
   384-387), so every number the explorer tick computes lies next to a
   multiple of 0.2.  Such a double is held exactly, as k fifths plus e units
   of 2^-56 / 5; sums are rounded to the nearest double, ties to even. *)

Double(k, e) == [k |-> k, e |-> e]

\* an integer as a double
DInt(n) == Double(5 * n, 0)

\* const speed = 0.2 (App.tsx 384): the double 0x3FC999999999999A, which is
\* 0.2 + 4 units
SPEED == Double(1, 4)

DNegative(v) == v.k < 0 \/ (v.k = 0 /\ v.e < 0)

DNeg(v) == Double(0 - v.k, 0 - v.e)

\* Math.abs
DAbs(v) == IF DNegative(v) THEN DNeg(v) ELSE v

\* Math.sign
DSign(v) == IF DNegative(v) THEN 0 - 1 ELSE IF v.k = 0 /\ v.e = 0 THEN 0 ELSE 1

DLess(v, w) == v.k < w.k \/ (v.k = w.k /\ v.e < w.e)

\* v >= n / 5, for v >= 0
DAtLeast(v, n) == v.k > n \/ (v.k = n /\ v.e >= 0)

\* the spacing of the doubles around v >= 0.2, in units: 2^-52 is 80 units
\* and is the spacing within [1, 2)
DSpacing(v) ==
    IF DAtLeast(v, 80) THEN 1280
    ELSE IF DAtLeast(v, 40) THEN 640
    ELSE IF DAtLeast(v, 20) THEN 320
    ELSE IF DAtLeast(v, 10) THEN 160
    ELSE IF DAtLeast(v, 5) THEN 80
    ELSE IF v.k >= 3 THEN 40
    ELSE IF v.k >= 2 THEN 20
    ELSE 10

\* twice the widest spacing above
DResidues == 2560

\* 2^56 modulo DResidues: one fifth is 2^56 units
DFifthResidue == 1536

\* the double nearest to the exact value v > 0, ties to the even mantissa
DNearestPositive(v) ==
    LET U == DSpacing(v)
        m == (v.k * DFifthResidue + v.e) % DResidues
        rem == m % U
        odd == ((m - rem) \div U) % 2 = 1
    IN IF 2 * rem < U \/ (2 * rem = U /\ ~odd)
       THEN Double(v.k, v.e - rem)
       ELSE Double(v.k, v.e + U - rem)

\* the double nearest to the exact value v; a value below 0.1 is a small
\* multiple of 2^-56 and a double already
DNearest(v) ==
    IF v.k = 0 THEN v
    ELSE IF DNegative(v) THEN DNeg(DNearestPositive(DNeg(v)))
    ELSE DNearestPositive(v)

\* the element of a set of one: The({F(x) : x \in {e}}) is F(e), with e
\* computed once
The(S) == CHOOSE x \in S : TRUE

\* v + w and v - w in double arithmetic
DAdd(v, w) == The({DNearest(exact) : exact \in {Double(v.k + w.k, v.e + w.e)}})

DSub(v, w) == DAdd(v, DNeg(w))

\* Math.round of a double next to a multiple of 0.2
DRound(v) == (2 * v.k + 5) \div 10

\* Math.abs(v) < 1.5
DWithinReach(v) == DAbs(v).k <= 7

BuildingTypes == {"None", "Road", "Residential", "Commercial", "Industrial",
                  "Park", "Farm", "Defense", "Port"}
ResourceTypes == {"None", "Water", "Forest", "Stone"}
Eras == <<"Primitive", "Industrial", "Modern", "Future">>

INITIAL_STATS == [money |-> 1500, wood |-> 100, stone |-> 50, food |-> 200,
                  population |-> 0]

ERA_THRESHOLDS ==
    [e \in {"Primitive", "Industrial", "Modern", "Future"} |->
        CASE e = "Primitive"  -> [pop |-> 0,    money |-> 0]
          [] e = "Industrial" -> [pop |-> 50,   money |-> 3000]
          [] e = "Modern"     -> [pop |-> 300,  money |-> 15000]
          [] e = "Future"     -> [pop |-> 1000, money |-> 60000]]

Cfg(cm, cw, cs, pg, ig) ==
    [costMoney |-> cm, costWood |-> cw, costStone |-> cs, popGen |-> pg, incomeGen |-> ig]

BUILDINGS ==
    [b \in BuildingTypes |->
        CASE b = "None"        -> Cfg(0, 0, 0, 0, 0)
          [] b = "Road"        -> Cfg(5, 0, 0, 0, 0)
          [] b = "Residential" -> Cfg(50, 10, 0, 5, 5)
          [] b = "Commercial"  -> Cfg(100, 20, 5, 0, 25)
          [] b = "Industrial"  -> Cfg(200, 30, 10, 0, 10)
          [] b = "Farm"        -> Cfg(30, 5, 0, 0, 5)
          [] b = "Defense"     -> Cfg(150, 20, 40, 0, 0 - 5)
          [] b = "Park"        -> Cfg(50, 10, 5, 1, 0)
          [] b = "Port"        -> Cfg(300, 50, 20, 2, 10)]

----------------------------------------------------------------------------
(* Grid *)

Coords == 0 .. (GRID_SIZE - 1)
Cells == Coords \X Coords            \* a cell is <<x, y>>
InGrid(x, y) == x >= 0 /\ x < GRID_SIZE /\ y >= 0 /\ y < GRID_SIZE

\* The land/water mask and the fog of the session's map: the east column is
\* sea, the south row lies in the fog.
InitResource(x, y) ==
    IF x = GRID_SIZE - 1 THEN "Water"
    ELSE IF y = GRID_SIZE - 1 THEN (IF x = 0 THEN "Forest" ELSE "Stone")
    ELSE IF x = 0 /\ y = 0 THEN "Forest"
    ELSE "None"

InitExplored(x, y) == y < GRID_SIZE - 1

createInitialGrid ==
    [c \in Cells |->
        [buildingType |-> "None",
         resourceType |-> InitResource(c[1], c[2]),
         landValue    |-> 100,
         level        |-> 1,
         explored     |-> InitExplored(c[1], c[2])]]

\* one neighbour's contribution to a tile's land value (hundredths)
NeighborValue(g, nx, ny) ==
    IF InGrid(nx, ny)
    THEN LET tile == g[<<nx, ny>>] IN
           (IF tile.resourceType = "Water" THEN 10 ELSE 0)
         + (IF tile.resourceType = "Forest" THEN 5 ELSE 0)
         + (IF tile.buildingType = "Park" THEN 20 ELSE 0)
         - (IF tile.buildingType = "Industrial" THEN 15 ELSE 0)
         + (IF tile.buildingType = "Defense" THEN 5 ELSE 0)
         + (IF tile.level > 1 THEN 10 * (tile.level - 1) ELSE 0)
    ELSE 0

\* faulty variant, to show that the properties below tell it apart: a land value that is not clamped
calculateLandValueUnclamped(g, x, y) ==
    100 + NeighborValue(g, x - 1, y) + NeighborValue(g, x + 1, y)
        + NeighborValue(g, x, y - 1) + NeighborValue(g, x, y + 1)
        + NeighborValue(g, x - 1, y - 1) + NeighborValue(g, x - 1, y + 1)
        + NeighborValue(g, x + 1, y - 1) + NeighborValue(g, x + 1, y + 1)

calculateLandValue(g, x, y) ==
    LET value == 100
                 + NeighborValue(g, x - 1, y) + NeighborValue(g, x + 1, y)
                 + NeighborValue(g, x, y - 1) + NeighborValue(g, x, y + 1)
                 + NeighborValue(g, x - 1, y - 1) + NeighborValue(g, x - 1, y + 1)
                 + NeighborValue(g, x + 1, y - 1) + NeighborValue(g, x + 1, y + 1)
    IN Max(50, Min(250, value))

----------------------------------------------------------------------------
(* Notifications *)

\* faulty variant, to show that the properties below tell it apart: a log that keeps every item
addNewsItemKeepAll(feed, item) == Append(feed, item)

\* setNewsFeed(prev => [...prev.slice(-12), item]); an item is held as its text
addNewsItem(feed, item) ==
    Append(IF Len(feed) > NEWS_KEEP
           THEN SubSeq(feed, Len(feed) - NEWS_KEEP + 1, Len(feed))
           ELSE feed, item)

----------------------------------------------------------------------------
(* Transactions: handleTileClick *)

Pow(b, n) == IF n = 0 THEN 1 ELSE IF n = 1 THEN b ELSE IF n = 2 THEN b * b ELSE b * b * b

\* Math.floor(base * Math.pow(UPGRADE_MULTIPLIER, level))
UpgradeCost(base, level) ==
    (base * Pow(UPGRADE_NUM, level)) \div Pow(UPGRADE_DEN, level)

\* faulty variant, to show that the properties below tell it apart: an affordability test that looks at the money alone
AffordableMoneyOnly(s, cm, cw, cs) == s.money >= cm

\* the affordability test, made on the statsRef snapshot
Affordable(s, cm, cw, cs) == s.money >= cm /\ s.wood >= cw /\ s.stone >= cs

\* setStats(prev => ({...prev, money: prev.money - cm, wood: ..., stone: ...}))
Debit(s, cm, cw, cs) ==
    [s EXCEPT !.money = @ - cm, !.wood = @ - cw, !.stone = @ - cs]

\* the offsets whose land value a demolish recomputes
DemolishRange == {<<0 - 1, 0>>, <<1, 0>>, <<0, 0 - 1>>, <<0, 1>>, <<0, 0>>}

\* faulty variant, to show that the properties below tell it apart: a build that recomputes the orthogonal neighbours only
BuildRangeOrthogonal == {<<0 - 1, 0>>, <<1, 0>>, <<0, 0 - 1>>, <<0, 1>>, <<0, 0>>}

\* the offsets whose land value a build recomputes
BuildRange == {<<0 - 1, 0>>, <<1, 0>>, <<0, 0 - 1>>, <<0, 1>>, <<0, 0>>,
               <<0 - 1, 0 - 1>>, <<0 - 1, 1>>, <<1, 0 - 1>>, <<1, 1>>}

\* range.forEach(... newGrid[ny][nx].landValue = calculateLandValue(newGrid, nx, ny))
\* (calculateLandValue reads no landValue, so the order of the writes is immaterial)
RecalcLandValues(g, x, y, range) ==
    [c \in Cells |->
        IF <<c[1] - x, c[2] - y>> \in range
        THEN [g[c] EXCEPT !.landValue = calculateLandValue(g, c[1], c[2])]
        ELSE g[c]]

Unchanged(outcome) ==
    [outcome |-> outcome, grid |-> grid, stats |-> stats, boats |-> boats,
     news |-> newsFeed]

Notified(outcome, item) ==
    [Unchanged(outcome) EXCEPT !.news = addNewsItem(newsFeed, item)]

\* faulty variant, to show that the properties below tell it apart: a cap test that lets a level-3 tile through
AtMaxLevelOffByOne(tile) == tile.level > MAX_LEVEL

\* currentTile.level >= 3
AtMaxLevel(tile) == tile.level >= MAX_LEVEL

\* faulty variant, to show that the properties below tell it apart: an upgrade that jumps to the top level
UpgradedTileToMax(tile) == [tile EXCEPT !.level = MAX_LEVEL]

\* { ...currentTile, level: currentTile.level + 1 }
UpgradedTile(tile) == [tile EXCEPT !.level = @ + 1]

\* App.tsx 449-478
UpgradeBranch(x, y) ==
    LET currentTile == gridRef[<<x, y>>]
        config == BUILDINGS[selectedTool]
        costMoney == UpgradeCost(config.costMoney, currentTile.level)
        costWood  == UpgradeCost(config.costWood, currentTile.level)
        costStone == UpgradeCost(config.costStone, currentTile.level)
    IN  IF AtMaxLevel(currentTile)
        THEN Notified("max_level", "Building at max level.")
        ELSE IF Affordable(statsRef, costMoney, costWood, costStone)
        THEN [outcome |-> "upgraded",
              grid    |-> [gridRef EXCEPT ![<<x, y>>] = UpgradedTile(currentTile)],
              stats   |-> Debit(stats, costMoney, costWood, costStone),
              boats   |-> boats,
              news    |-> addNewsItem(newsFeed, "upgraded")]
        ELSE Notified("upgrade_insufficient", "Upgrade costs")

\* faulty variant, to show that the properties below tell it apart: a demolish that clears the building and leaves its level
DemolishedAtLevel(g, x, y) ==
    RecalcLandValues([g EXCEPT ![<<x, y>>].buildingType = "None"], x, y, DemolishRange)

\* newGrid of a demolish: the tile cleared, then the range recomputed (App.tsx 484-494)
Demolished(g, x, y) ==
    RecalcLandValues([g EXCEPT ![<<x, y>>].buildingType = "None", ![<<x, y>>].level = 1],
                     x, y, DemolishRange)

\* App.tsx 480-504
DemolishBranch(x, y) ==
    LET currentTile == gridRef[<<x, y>>] IN
    IF currentTile.buildingType = "None" THEN Unchanged("demolish_empty")
    ELSE IF statsRef.money >= DEMOLISH_COST
    THEN LET newGrid == Demolished(gridRef, x, y)
             paid == [stats EXCEPT !.money = @ - DEMOLISH_COST]
         IN [outcome |-> "demolished",
             grid    |-> newGrid,
             stats   |-> IF currentTile.resourceType = "Forest"
                         THEN [paid EXCEPT !.wood = @ + DEMOLISH_WOOD_BONUS]
                         ELSE paid,
             boats   |-> boats,
             news    |-> newsFeed]
    ELSE Unchanged("demolish_insufficient")

\* faulty variant, to show that the properties below tell it apart: an explorer that starts in the corner of the map
NewBoatAtOrigin(x, y) ==
    [x |-> DInt(0), y |-> DInt(0), targetX |-> 0 - 1, targetY |-> 0 - 1, state |-> "idle"]

\* the explorer a Port build appends: { id, x, y, state: 'idle' } (no target)
NewBoat(x, y) ==
    [x |-> DInt(x), y |-> DInt(y), targetX |-> 0 - 1, targetY |-> 0 - 1, state |-> "idle"]

\* faulty variant, to show that the properties below tell it apart: a build that starts from the grid of the construction and so drops what was built before
BuiltOnInitialGrid(g, x, y, tool) ==
    RecalcLandValues([createInitialGrid EXCEPT ![<<x, y>>].buildingType = tool,
                                               ![<<x, y>>].level = 1],
                     x, y, BuildRange)

\* newGrid of a build: the tile replaced, then the block recomputed (App.tsx 529-544)
Built(g, x, y, tool) ==
    RecalcLandValues([g EXCEPT ![<<x, y>>].buildingType = tool, ![<<x, y>>].level = 1],
                     x, y, BuildRange)

\* faulty variant, to show that the properties below tell it apart: a water check that lets every tool through
WaterRejectsNothing(tile, tool) == FALSE

\* the water check of App.tsx 509
WaterRejects(tile, tool) ==
    tile.resourceType = "Water" /\ tool # "Port" /\ tool # "Road"

\* the Port check of App.tsx 513
PortRejects(tile, tool) == tool = "Port" /\ tile.resourceType # "Water"

\* App.tsx 506-550
BuildBranch(x, y) ==
    LET currentTile == gridRef[<<x, y>>]
        tool == selectedTool
        config == BUILDINGS[tool]
    IN  IF currentTile.buildingType # "None" THEN Unchanged("occupied")
        ELSE IF WaterRejects(currentTile, tool)
        THEN Notified("water_rejected", "Can only build Ports or Bridges on water.")
        ELSE IF PortRejects(currentTile, tool)
        THEN Notified("port_rejected", "Ports must be built on water.")
        ELSE IF Affordable(statsRef, config.costMoney, config.costWood, config.costStone)
        THEN [outcome |-> "built",
                 grid    |-> Built(gridRef, x, y, tool),
                 stats   |-> Debit(stats, config.costMoney, config.costWood, config.costStone),
                 boats   |-> IF tool = "Port" THEN Append(boats, NewBoat(x, y)) ELSE boats,
                 news    |-> newsFeed]
        ELSE Notified("build_insufficient", "Insufficient resources")

\* faulty variant, to show that the properties below tell it apart: a fog check that lets every tile through
InFogNever(g, x, y) == FALSE

\* !currentTile.explored (App.tsx 443-444)
InFog(g, x, y) == ~g[<<x, y>>].explored

\* App.tsx 434-551
handleTileClick(x, y) ==
    IF ~gameStarted THEN Unchanged("not_started")
    ELSE IF ~InGrid(x, y) THEN Unchanged("out_of_bounds")
    ELSE IF InFog(gridRef, x, y) THEN Unchanged("fog")
    ELSE IF selectedTool # "None" /\ gridRef[<<x, y>>].buildingType = selectedTool
    THEN UpgradeBranch(x, y)
    ELSE IF selectedTool = "None" THEN DemolishBranch(x, y)
    ELSE BuildBranch(x, y)

Op(op, x, y, tool, outcome) ==
    [op |-> op, x |-> x, y |-> y, tool |-> tool, outcome |-> outcome]

\* A handler run takes one step of the exploration's budget; a negative
\* budget stands for an exploration without end, which a run leaves as it is.
Spend ==
    /\ steps # 0
    /\ steps' = IF steps < 0 THEN steps ELSE steps - 1

TileClick(x, y) ==
    /\ \E r \in {handleTileClick(x, y)} :
         /\ grid' = r.grid
         /\ stats' = r.stats
         \* the effects of the render this command causes (App.tsx 113-114)
         /\ gridRef' = IF r.grid # grid THEN r.grid ELSE gridRef
         /\ statsRef' = IF r.stats # stats THEN r.stats ELSE statsRef
         /\ boats' = r.boats
         /\ newsFeed' = r.news
         /\ last' = Op("click", x, y, selectedTool, r.outcome)
    /\ Spend
    /\ UNCHANGED <<gameStarted, aiEnabled, selectedTool, enemies, enemiesRef,
                   currentGoal, goalRef, goalFetch, nextId>>

\* UIOverlay onSelectTool = setSelectedTool
SelectTool(t) ==
    /\ gameStarted
    /\ selectedTool # t
    /\ selectedTool' = t
    /\ UNCHANGED <<gameStarted, aiEnabled, grid, gridRef, stats, statsRef, enemies,
                   enemiesRef, boats, currentGoal, goalRef, goalFetch, newsFeed,
                   nextId, steps, last>>

\* the useEffect callbacks that refresh the refs (App.tsx 113-118), run after
\* the render that follows a timer callback or a promise continuation
SyncRefs ==
    /\ <<gridRef, statsRef, enemiesRef, goalRef>> # <<grid, stats, enemies, currentGoal>>
    /\ gridRef' = grid
    /\ statsRef' = stats
    /\ enemiesRef' = enemies
    /\ goalRef' = currentGoal
    /\ UNCHANGED <<gameStarted, aiEnabled, selectedTool, grid, stats, enemies, boats,
                   currentGoal, goalFetch, newsFeed, nextId, steps, last>>

----------------------------------------------------------------------------
(* Economy tick: the setInterval callback of App.tsx 155-250 *)

RECURSIVE SumF(_, _)
SumF(f, S) ==
    IF S = {} THEN 0
    ELSE LET c == CHOOSE c \in S : TRUE IN f[c] + SumF(f, S \ {c})

\* a tile's share of dailyIncome, in hundredths of a money unit
TileIncome(tile) ==
    IF tile.buildingType = "None" THEN 0
    ELSE BUILDINGS[tile.buildingType].incomeGen * tile.level * tile.landValue
         + (IF tile.buildingType = "Industrial"
               /\ tile.resourceType # "Forest" /\ tile.resourceType # "Stone"
            THEN 500 * tile.level ELSE 0)
         + (IF tile.buildingType = "Port" THEN 500 * tile.level ELSE 0)

TilePopGrowth(tile) ==
    IF tile.buildingType = "None" THEN 0
    ELSE BUILDINGS[tile.buildingType].popGen * tile.level

TileFood(tile) == IF tile.buildingType = "Farm" THEN 15 * tile.level ELSE 0

TileWood(tile) ==
    IF tile.buildingType = "Industrial" /\ tile.resourceType = "Forest"
    THEN 5 * tile.level ELSE 0

TileStone(tile) ==
    IF tile.buildingType = "Industrial" /\ tile.resourceType = "Stone"
    THEN 3 * tile.level ELSE 0

\* buildingCounts[b]
BuildingCount(g, b) == Cardinality({c \in Cells : g[c].buildingType = b})

\* the i-th tile of grid.flat(), rows first
FlatCell(i) == <<i % GRID_SIZE, i \div GRID_SIZE>>

\* the sum of share[tile] over the first n tiles of grid.flat()
RECURSIVE SumTiles(_, _)
SumTiles(share, n) ==
    IF n = 0 THEN 0
    ELSE share[FlatCell(n - 1)] + SumTiles(share, n - 1)

\* the sweep over gridRef.current.flat()
Sweep(g) ==
    [income100 |-> SumTiles([c \in Cells |-> TileIncome(g[c])], GRID_SIZE * GRID_SIZE),
     popGrowth |-> SumTiles([c \in Cells |-> TilePopGrowth(g[c])], GRID_SIZE * GRID_SIZE),
     wood      |-> SumTiles([c \in Cells |-> TileWood(g[c])], GRID_SIZE * GRID_SIZE),
     stone     |-> SumTiles([c \in Cells |-> TileStone(g[c])], GRID_SIZE * GRID_SIZE),
     food      |-> SumTiles([c \in Cells |-> TileFood(g[c])], GRID_SIZE * GRID_SIZE),
     resCount  |-> BuildingCount(g, "Residential")]

\* Math.ceil(prev.population * 0.2)
FoodConsumption(population) == (population + 4) \div 5

\* faulty variant, to show that the properties below tell it apart: an era progression that jumps to the latest era whose thresholds are met
NextEraLatest(era, newPop, money) ==
    IF era # "Future" /\ newPop >= ERA_THRESHOLDS["Future"].pop
                      /\ money >= ERA_THRESHOLDS["Future"].money
    THEN "Future"
    ELSE IF era \in {"Primitive", "Industrial"}
            /\ newPop >= ERA_THRESHOLDS["Modern"].pop
            /\ money >= ERA_THRESHOLDS["Modern"].money
    THEN "Modern"
    ELSE IF era = "Primitive" /\ newPop >= ERA_THRESHOLDS["Industrial"].pop
                              /\ money >= ERA_THRESHOLDS["Industrial"].money
    THEN "Industrial"
    ELSE era

\* faulty variant, to show that the properties below tell it apart: an era progression gated on the population alone
NextEraPopulationOnly(era, newPop, money) ==
    IF era = "Primitive" /\ newPop >= ERA_THRESHOLDS["Industrial"].pop THEN "Industrial"
    ELSE IF era = "Industrial" /\ newPop >= ERA_THRESHOLDS["Modern"].pop THEN "Modern"
    ELSE IF era = "Modern" /\ newPop >= ERA_THRESHOLDS["Future"].pop THEN "Future"
    ELSE era

\* App.tsx 204-207
NextEra(era, newPop, money) ==
    IF era = "Primitive" /\ newPop >= ERA_THRESHOLDS["Industrial"].pop
                         /\ money >= ERA_THRESHOLDS["Industrial"].money
    THEN "Industrial"
    ELSE IF era = "Industrial" /\ newPop >= ERA_THRESHOLDS["Modern"].pop
                               /\ money >= ERA_THRESHOLDS["Modern"].money
    THEN "Modern"
    ELSE IF era = "Modern" /\ newPop >= ERA_THRESHOLDS["Future"].pop
                           /\ money >= ERA_THRESHOLDS["Future"].money
    THEN "Future"
    ELSE era

Starving(prev, sw) == prev.food + sw.food - FoodConsumption(prev.population) < 0

\* faulty variant, to show that the properties below tell it apart: a starving population that escapes the cap
NewPopulationCapOnGrowth(prev, sw) ==
    IF Starving(prev, sw) THEN Max(0, prev.population - STARVE_PENALTY)
    ELSE Min(prev.population + sw.popGrowth, (sw.resCount * 50) * 3)

\* App.tsx 196-202
NewPopulation(prev, sw) ==
    LET maxPop == (sw.resCount * 50) * 3
        grown == prev.population
                 + (IF Starving(prev, sw) THEN 0 - STARVE_PENALTY ELSE sw.popGrowth)
        capped == IF grown > maxPop THEN maxPop ELSE grown
    IN IF capped < 0 THEN 0 ELSE capped

\* the updater of setStats, App.tsx 186-228
NewStats(prev, sw) ==
    [money      |-> (prev.money * 100 + sw.income100) \div 100,
     wood       |-> prev.wood + sw.wood,
     stone      |-> prev.stone + sw.stone,
     food       |-> IF Starving(prev, sw) THEN 0
                    ELSE prev.food + sw.food - FoodConsumption(prev.population),
     population |-> NewPopulation(prev, sw),
     day        |-> prev.day + 1,
     era        |-> NextEra(prev.era, NewPopulation(prev, sw), prev.money)]

NoGoal ==
    [present |-> FALSE, targetType |-> "none", targetValue |-> 0,
     buildingType |-> "None", reward |-> 0, completed |-> FALSE]

\* faulty variant, to show that the properties below tell it apart: a goal check with a branch for stockpiles
GoalMetWithStockpile(goal, newStats, g) ==
    \/ goal.targetType = "money" /\ newStats.money >= goal.targetValue
    \/ goal.targetType = "population" /\ newStats.population >= goal.targetValue
    \/ /\ goal.targetType = "building_count"
       /\ goal.buildingType # "None"
       /\ BuildingCount(g, goal.buildingType) >= goal.targetValue
    \/ /\ goal.targetType = "resource_stockpile"
       /\ newStats.wood >= goal.targetValue
       /\ newStats.stone >= goal.targetValue
       /\ newStats.food >= goal.targetValue

\* App.tsx 230-239
GoalMet(goal, newStats, g) ==
    \/ goal.targetType = "money" /\ newStats.money >= goal.targetValue
    \/ goal.targetType = "population" /\ newStats.population >= goal.targetValue
    \/ /\ goal.targetType = "building_count"
       /\ goal.buildingType # "None"
       /\ BuildingCount(g, goal.buildingType) >= goal.targetValue

\* the notifications of one economy tick, in the order the updater issues them
EconomyNews(feed, prev, sw) ==
    LET f1 == IF NextEra(prev.era, NewPopulation(prev, sw), prev.money) # prev.era
              THEN addNewsItem(feed, "SOCIETAL ADVANCEMENT") ELSE feed
    IN IF Starving(prev, sw) /\ prev.population > 0 /\ prev.day % 3 = 0
       THEN addNewsItem(f1, "Food shortage!") ELSE f1

\* days an exploration without end tells apart
DayCycle == 6

\* The day is read only as prev.day % 3 (App.tsx 241); an exploration without
\* end keeps it within one cycle of DayCycle days, a multiple of 3.
DayOfCycle(day) == ((day - 1) % DayCycle) + 1

EconomyTick ==
    /\ gameStarted
    /\ \E sw \in {Sweep(gridRef)} : \E newStats \in {NewStats(stats, sw)} :
          /\ stats' = IF steps < 0 THEN [newStats EXCEPT !.day = DayOfCycle(@)]
                       ELSE newStats
          /\ currentGoal' =
                IF aiEnabled /\ goalRef.present /\ ~goalRef.completed
                   /\ GoalMet(goalRef, newStats, gridRef)
                THEN [goalRef EXCEPT !.completed = TRUE]
                ELSE currentGoal
          /\ newsFeed' = EconomyNews(newsFeed, stats, sw)
          /\ last' = Op("economy", 0 - 1, 0 - 1, "None",
                        IF newStats.era # stats.era THEN "era_advanced" ELSE "ticked")
    /\ Spend
    /\ UNCHANGED <<gameStarted, aiEnabled, selectedTool, grid, gridRef, statsRef, enemies,
                   enemiesRef, boats, goalRef, goalFetch, nextId>>

----------------------------------------------------------------------------
(* Session start and goals *)

\* the goals the oracle may return
OracleGoals ==
    { [present |-> TRUE, targetType |-> "population", targetValue |-> 5,
       buildingType |-> "None", reward |-> 100, completed |-> FALSE],
      [present |-> TRUE, targetType |-> "building_count", targetValue |-> 1,
       buildingType |-> "Residential", reward |-> 60, completed |-> FALSE],
      [present |-> TRUE, targetType |-> "resource_stockpile", targetValue |-> 10,
       buildingType |-> "None", reward |-> 40, completed |-> FALSE] }

\* faulty variant, to show that the properties below tell it apart: a session start that requests a goal whatever the player chose
StartFetchAlways(enabled) == "pending"

\* if (aiEnabled) fetchNewGoal() (App.tsx 147), which passes the test of
\* App.tsx 125 (no request in flight yet, aiEnabledRef refreshed by the effect
\* of App.tsx 118, which runs first) and waits for the oracle
StartFetch(enabled) == IF enabled THEN "pending" ELSE "idle"

\* handleStart (App.tsx 568-571) and the effect it triggers (App.tsx 144-149)
HandleStart(enabled) ==
    /\ ~gameStarted
    /\ gameStarted' = TRUE
    /\ aiEnabled' = enabled
    /\ newsFeed' = addNewsItem(newsFeed, "Settlement established.")
    /\ goalFetch' = StartFetch(enabled)
    /\ last' = Op("start", 0 - 1, 0 - 1, "None", IF enabled THEN "ai" ELSE "no_ai")
    /\ Spend
    /\ UNCHANGED <<selectedTool, grid, gridRef, stats, statsRef, enemies, enemiesRef,
                   boats, currentGoal, goalRef, nextId>>

\* fetchNewGoal resumes with a goal (App.tsx 129-131, 135)
GoalArrives(goal) ==
    /\ goalFetch = "pending"
    /\ currentGoal' = goal
    /\ goalFetch' = "idle"
    /\ last' = Op("goal", 0 - 1, 0 - 1, "None", "arrived")
    /\ Spend
    /\ UNCHANGED <<gameStarted, aiEnabled, selectedTool, grid, gridRef, stats, statsRef,
                   enemies, enemiesRef, boats, goalRef, newsFeed, nextId>>

\* faulty variant, to show that the properties below tell it apart: a null response that schedules no retry
AfterNullGiveUp(enabled) == "idle"

\* if (aiEnabledRef.current) setTimeout(fetchNewGoal, 5000) (App.tsx 133)
AfterNull(enabled) == IF enabled THEN "retry" ELSE "idle"

\* fetchNewGoal resumes with null (App.tsx 132-135)
GoalNull ==
    /\ goalFetch = "pending"
    /\ goalFetch' = AfterNull(aiEnabled)
    /\ last' = Op("goal", 0 - 1, 0 - 1, "None", "null")
    /\ Spend
    /\ UNCHANGED <<gameStarted, aiEnabled, selectedTool, grid, gridRef, stats, statsRef,
                   enemies, enemiesRef, boats, currentGoal, goalRef, newsFeed, nextId>>

\* The timer of setTimeout(fetchNewGoal, 5000) fires.  It runs the
\* fetchNewGoal that scheduled it, whose isGeneratingGoal is the false it was
\* created with (it passed the test of App.tsx 125 when it was called), so the
\* test passes again unless aiEnabledRef is off.
GoalRetry ==
    /\ goalFetch = "retry"
    /\ goalFetch' = IF aiEnabled THEN "pending" ELSE "idle"
    /\ last' = Op("goal", 0 - 1, 0 - 1, "None", "retry")
    /\ Spend
    /\ UNCHANGED <<gameStarted, aiEnabled, selectedTool, grid, gridRef, stats, statsRef,
                   enemies, enemiesRef, boats, currentGoal, goalRef, newsFeed, nextId>>

\* faulty variant, to show that the properties below tell it apart: a claim that pays for any goal
ClaimableUncompleted(goal) == goal.present

\* currentGoal && currentGoal.completed (App.tsx 560)
Claimable(goal) == goal.present /\ goal.completed

\* handleClaimReward is created anew by every render and closes over the
\* currentGoal of that render: the value the effect of App.tsx 117 stores in
\* goalRef when the render is done
RenderedGoal == goalRef

\* handleClaimReward (App.tsx 559-566)
ClaimReward ==
    /\ gameStarted
    /\ IF Claimable(RenderedGoal)
       THEN /\ stats' = [stats EXCEPT !.money = @ + RenderedGoal.reward]
            /\ newsFeed' = addNewsItem(newsFeed, "Goal achieved!")
            /\ currentGoal' = NoGoal
            \* the effects of the render this command causes (App.tsx 114, 117)
            /\ statsRef' = stats'
            /\ goalRef' = NoGoal
            /\ goalFetch' = IF goalFetch = "idle" /\ aiEnabled THEN "pending" ELSE goalFetch
            /\ last' = Op("claim", 0 - 1, 0 - 1, "None", "claimed")
       ELSE /\ UNCHANGED <<stats, statsRef, newsFeed, currentGoal, goalRef, goalFetch>>
            /\ last' = Op("claim", 0 - 1, 0 - 1, "None", "nothing")
    /\ Spend
    /\ UNCHANGED <<gameStarted, aiEnabled, selectedTool, grid, gridRef, enemies,
                   enemiesRef, boats, nextId>>

----------------------------------------------------------------------------
(* Hostiles: the setInterval callback of App.tsx 259-341, handleEnemyClick *)

\* Math.round of a coordinate held in tenths
Round(t) == (t + 5) \div 10

\* minDist starts at 999 tiles
NO_TARGET_DIST == 9990

Dist(e, c) == Abs(e.x - 10 * c[1]) + Abs(e.y - 10 * c[2])

\* the tiles a hostile may head for
Targets(e, g) ==
    {c \in Cells : /\ g[c].buildingType # "None"
                   /\ g[c].buildingType # "Road"
                   /\ Dist(e, c) < NO_TARGET_DIST}

\* the scan is row by row (y outer, x inner) and keeps the first strict minimum
NearestTarget(e, g) ==
    CHOOSE c \in Targets(e, g) :
        \A d \in Targets(e, g) :
            \/ Dist(e, c) < Dist(e, d)
            \/ /\ Dist(e, c) = Dist(e, d)
               /\ (c[2] < d[2] \/ (c[2] = d[2] /\ c[1] <= d[1]))

TurretAt(g, tx, ty) ==
    IF InGrid(tx, ty) /\ g[<<tx, ty>>].buildingType = "Defense"
    THEN TURRET_DAMAGE * g[<<tx, ty>>].level ELSE 0

\* faulty variant, to show that the properties below tell it apart: turrets that reach only the tile itself and its four side neighbours
TurretDamageCross(g, gx, gy) ==
      TurretAt(g, gx - 1, gy) + TurretAt(g, gx + 1, gy)
    + TurretAt(g, gx, gy - 1) + TurretAt(g, gx, gy + 1) + TurretAt(g, gx, gy)

\* the damage of the Defense tiles in the 3x3 block centred on (gx, gy)
TurretDamage(g, gx, gy) ==
      TurretAt(g, gx - 1, gy) + TurretAt(g, gx + 1, gy)
    + TurretAt(g, gx, gy - 1) + TurretAt(g, gx, gy + 1) + TurretAt(g, gx, gy)
    + TurretAt(g, gx - 1, gy - 1) + TurretAt(g, gx - 1, gy + 1)
    + TurretAt(g, gx + 1, gy - 1) + TurretAt(g, gx + 1, gy + 1)

\* whether the hostile reaches the theft roll of App.tsx 330-331
Attacks(e, g) ==
    /\ Targets(e, g) # {}
    /\ Dist(e, NearestTarget(e, g)) < 10
    /\ e.attackCooldown <= 0

\* faulty variant, to show that the properties below tell it apart: a hostile that steps until it stands on its target
MovesUntilOnTarget(minDist) == minDist > 0

\* minDist > 0.5 (App.tsx 305), the distance in tenths
Moves(minDist) == minDist > 5

\* the body of prevEnemies.map, App.tsx 285-337
StepEnemy(e, g) ==
    IF Targets(e, g) = {} THEN e
    ELSE LET t == NearestTarget(e, g)
             minDist == Dist(e, t)
             nx == IF Moves(minDist) THEN e.x + Sign(10 * t[1] - e.x) ELSE e.x
             ny == IF Moves(minDist) THEN e.y + Sign(10 * t[2] - e.y) ELSE e.y
             hp == e.hp - TurretDamage(g, Round(nx), Round(ny))
         IN [e EXCEPT !.x = nx, !.y = ny, !.hp = hp,
                      !.attackCooldown = IF minDist < 10 /\ e.attackCooldown <= 0
                                         THEN ATTACK_COOLDOWN
                                         ELSE Max(0, e.attackCooldown - 1)]

\* faulty variant, to show that the properties below tell it apart: a filter that keeps a hostile whose hp reached 0
FilterAliveInclusive(es) == SelectSeq(es, LAMBDA e : e.hp >= 0)

\* .filter(e => e.hp > 0)
FilterAlive(es) == SelectSeq(es, LAMBDA e : e.hp > 0)

\* faulty variant, to show that the properties below tell it apart: a theft written onto the ledger of the last render
TheftFromSnapshot(s) ==
    [statsRef EXCEPT !.money = Max(0, @ - THEFT_MONEY), !.food = Max(0, @ - THEFT_FOOD)]

\* setStats(s => ({...s, money: Math.max(0, s.money - 10), food: Math.max(0, s.food - 5)}))
Theft(s) ==
    [s EXCEPT !.money = Max(0, @ - THEFT_MONEY), !.food = Max(0, @ - THEFT_FOOD)]

RECURSIVE Thefts(_, _)
Thefts(s, k) == IF k = 0 THEN s ELSE Thefts(Theft(s), k - 1)

\* where a hostile may appear: on one of the four edges (tenths of a tile);
\* Math.random() * GRID_SIZE falls anywhere in [0, GRID_SIZE)
SpawnAlong == {3, 10, 10 * GRID_SIZE - 1}
SpawnPositions ==
      {<<a, 0>> : a \in SpawnAlong}
    \cup {<<a, 10 * (GRID_SIZE - 1)>> : a \in SpawnAlong}
    \cup {<<0, a>> : a \in SpawnAlong}
    \cup {<<10 * (GRID_SIZE - 1), a>> : a \in SpawnAlong}

\* App.tsx 272-278
NewEnemy(id, pos, era) ==
    LET hp == ENEMY_BASE_HP + (IF era = "Future" THEN ENEMY_FUTURE_HP ELSE 0)
    IN [id |-> id, x |-> pos[1], y |-> pos[2], hp |-> hp, maxHp |-> hp,
        attackCooldown |-> 0]

\* faulty variant, to show that the properties below tell it apart: a spawn roll that can succeed with nobody in the city
SpawnGateAnyPopulation == Len(enemiesRef) < ENEMY_CAP

\* the spawn gate of App.tsx 263-264: Math.random() < spawnChance can hold only
\* when the population is positive
SpawnGate == statsRef.population > 0 /\ Len(enemiesRef) < ENEMY_CAP

\* the movement pass over a list of hostiles, with `k` of the attackers stealing
MoveAll(es, k) ==
    /\ enemies' = FilterAlive([i \in 1 .. Len(es) |-> StepEnemy(es[i], gridRef)])
    /\ stats' = Thefts(stats, k)

Attackers(es) == {i \in 1 .. Len(es) : Attacks(es[i], gridRef)}

HostileTickNoSpawn ==
    /\ gameStarted
    /\ \E k \in 0 .. Cardinality(Attackers(enemies)) :
         /\ MoveAll(enemies, k)
         /\ last' = Op("hostile", 0 - 1, 0 - 1, "None", IF k > 0 THEN "theft" ELSE "moved")
    /\ Spend
    /\ UNCHANGED <<gameStarted, aiEnabled, selectedTool, grid, gridRef, statsRef,
                   enemiesRef, boats, currentGoal, goalRef, goalFetch, newsFeed, nextId>>

HostileTickSpawn(pos, announce) ==
    /\ gameStarted
    /\ SpawnGate
    /\ nextId < MaxSpawns
    /\ LET es == Append(enemies, NewEnemy(nextId + 1, pos, statsRef.era)) IN
         \E k \in 0 .. Cardinality(Attackers(es)) :
            /\ MoveAll(es, k)
            /\ last' = Op("hostile", pos[1], pos[2], "None",
                          IF k > 0 THEN "spawn_theft" ELSE "spawned")
    /\ nextId' = nextId + 1
    /\ newsFeed' = IF announce THEN addNewsItem(newsFeed, "Hostiles detected")
                   ELSE newsFeed
    /\ Spend
    /\ UNCHANGED <<gameStarted, aiEnabled, selectedTool, grid, gridRef, statsRef,
                   enemiesRef, boats, currentGoal, goalRef, goalFetch>>

\* faulty variant, to show that the properties below tell it apart: a click that hurts every hostile on the field
ClickDamageAll(es, id) ==
    [i \in 1 .. Len(es) |-> [es[i] EXCEPT !.hp = @ - CLICK_DAMAGE]]

\* handleEnemyClick, App.tsx 553-557
ClickDamage(es, id) ==
    [i \in 1 .. Len(es) |->
        IF es[i].id = id THEN [es[i] EXCEPT !.hp = @ - CLICK_DAMAGE] ELSE es[i]]

EnemyClick(id) ==
    /\ enemies' = FilterAlive(ClickDamage(enemies, id))
    \* the effect of the render this command causes (App.tsx 115)
    /\ enemiesRef' = IF enemies' # enemies THEN enemies' ELSE enemiesRef
    /\ last' = Op("agent", id, 0 - 1, "None",
                  IF enemies' # enemies THEN "hit" ELSE "missed")
    /\ Spend
    /\ UNCHANGED <<gameStarted, aiEnabled, selectedTool, grid, gridRef, stats, statsRef,
                   boats, currentGoal, goalRef, goalFetch, newsFeed, nextId>>

----------------------------------------------------------------------------
(* Explorers: the setInterval callback of App.tsx 349-427 *)

Unexplored(g) == {c \in Cells : ~g[c].explored}

\* Math.abs(t.x - boat.x) + Math.abs(t.y - boat.y)
BoatDist(b, c) ==
    DAdd(DAbs(DSub(DInt(c[1]), b.x)), DAbs(DSub(DInt(c[2]), b.y)))

\* unexploredTiles is filled row by row; the first strict minimum is kept
ClosestUnexplored(b, un) ==
    The({CHOOSE c \in un :
            \A d \in un :
                \/ DLess(dist[c], dist[d])
                \/ /\ dist[c] = dist[d]
                   /\ (c[2] < d[2] \/ (c[2] = d[2] /\ c[1] <= d[1]))
         : dist \in {[c \in un |-> BoatDist(b, c)]}})

\* faulty variant, to show that the properties below tell it apart: an explorer that keeps its first target for good
NeedsTargetOnce(b, g) == b.targetX = 0 - 1

\* if (!boat.targetX || grid[boat.targetY][boat.targetX].explored)
NeedsTarget(b, g) ==
    \/ b.targetX = 0 - 1
    \/ b.targetX = 0
    \/ g[<<b.targetX, b.targetY>>].explored

Retarget(b, g, un) ==
    IF NeedsTarget(b, g)
    THEN LET t == ClosestUnexplored(b, un)
         IN [b EXCEPT !.targetX = t[1], !.targetY = t[2], !.state = "exploring"]
    ELSE b

RevealRange == {<<0, 0>>, <<1, 0>>, <<0 - 1, 0>>, <<0, 1>>, <<0, 0 - 1>>, <<1, 1>>,
                <<0 - 1, 0 - 1>>}

\* faulty variant, to show that the properties below tell it apart: a reveal that treats every cell in range as new
RevealedInRange(g, gx, gy) ==
    {c \in Cells : <<c[1] - gx, c[2] - gy>> \in RevealRange}

\* the cells a reveal around (gx, gy) newly explores
NewlyRevealed(g, gx, gy) ==
    {c \in Cells : <<c[1] - gx, c[2] - gy>> \in RevealRange /\ ~g[c].explored}

MarkExplored(g, cs) ==
    [c \in Cells |-> IF c \in cs THEN [g[c] EXCEPT !.explored = TRUE] ELSE g[c]]

\* faulty variant, to show that the properties below tell it apart: a reveal that writes into tiles of its own and leaves the array read before as it was
MarkedInCopy(snap, cs) == snap

\* What the array held by gridRef shows when the updater of App.tsx 397-415
\* has run: g.map(row => [...row]) copies the rows and shares the tile
\* objects, so t.explored = true (App.tsx 403) shows in that array too.
MarkedInPlace(snap, cs) == MarkExplored(snap, cs)

\* nx += (dx !== 0 ? Math.sign(dx) : 0) * speed
Stepped(v, sign) ==
    IF sign = 0 THEN v
    ELSE DAdd(v, IF sign > 0 THEN SPEED ELSE DNeg(SPEED))

\* One explorer's turn (App.tsx 365-423) on the running result acc:
\* acc.grid is the latest grid, whose tile objects the reveal marks in place.
\* foundSomething is set inside the updater handed to setGrid and read right
\* after the call (App.tsx 417).  The updater has run by then only if the call
\* computed the state at once, which it does only while the component has no
\* update queued: acc.eager tells whether that still holds.  The call itself
\* queues an update, so a later call of the same tick finds one queued.
\* the explorer has moved to (nx, ny); reveals: it is within reach of its
\* target and calls setGrid, whose updater newly explores the cells cs
Revealing(b, acc, nx, ny, reveals, cs) ==
    LET forests == Cardinality({c \in cs : acc.grid[c].resourceType = "Forest"})
        stones  == Cardinality({c \in cs : acc.grid[c].resourceType = "Stone"})
        found == forests + stones > 0
        foundSomething == found /\ acc.eager
    IN [boats |-> Append(acc.boats, [b EXCEPT !.x = nx, !.y = ny]),
        grid  |-> MarkExplored(acc.grid, cs),
        snap  |-> MarkedInPlace(acc.snap, cs),
        stats |-> [acc.stats EXCEPT !.wood = @ + 20 * forests,
                                    !.stone = @ + 10 * stones,
                                    !.money = @ + (IF foundSomething THEN 50 ELSE 0)],
        news  |-> IF foundSomething
                  THEN addNewsItem(acc.news, "Expedition discovered resources!")
                  ELSE acc.news,
        found |-> acc.found \/ found,
        finds |-> acc.finds + (IF found THEN 1 ELSE 0),
        eager |-> acc.eager /\ ~reveals]

\* the move of an explorer with target (App.tsx 379-421)
Turned(b, acc) ==
    LET dx == DSub(DInt(b.targetX), b.x)
        dy == DSub(DInt(b.targetY), b.y)
        nx == Stepped(b.x, DSign(dx))
        ny == Stepped(b.y, DSign(dy))
        reveals == DWithinReach(dx) /\ DWithinReach(dy)
    IN The({Revealing(b, acc, nx, ny, reveals, cs) :
              cs \in {IF reveals
                      THEN NewlyRevealed(acc.grid, DRound(nx), DRound(ny))
                      ELSE {}}})

\* the target is settled first (App.tsx 366-377), then the explorer moves
BoatTurn(b0, acc, un) ==
    The({Turned(b, acc) : b \in {Retarget(b0, acc.grid, un)}})

RECURSIVE BoatFold(_, _, _, _)
BoatFold(bs, i, acc, un) ==
    IF i > Len(bs) THEN acc
    ELSE The({BoatFold(bs, i + 1, next, un) : next \in {BoatTurn(bs[i], acc, un)}})

\* the running result before the first explorer's turn; eager: the component
\* has no update queued when the callback runs
BoatStart(eager) ==
    [boats |-> <<>>, grid |-> grid, snap |-> gridRef, stats |-> stats,
     news |-> newsFeed, found |-> FALSE, finds |-> 0, eager |-> eager]

\* the result of one run of the callback
BoatRun(eager) ==
    The({IF Len(boats) = 0 \/ un = {}
         THEN [start EXCEPT !.boats = boats]
         ELSE BoatFold(boats, 1, start, un)
         : un \in {Unexplored(gridRef)}, start \in {BoatStart(eager)}})

BoatTick ==
    /\ gameStarted
    /\ \E eager \in BOOLEAN :
         \E r \in {BoatRun(eager)} :
            /\ boats' = r.boats
            /\ grid' = r.grid
            /\ gridRef' = r.snap
            /\ stats' = r.stats
            /\ newsFeed' = r.news
            /\ last' = Op("explorer", 0 - 1, 0 - 1, "None",
                          IF r.found THEN "found"
                          ELSE IF r.grid # grid THEN "revealed"
                          ELSE IF r.boats # boats THEN "moved" ELSE "idle")
    /\ Spend
    /\ UNCHANGED <<gameStarted, aiEnabled, selectedTool, statsRef, enemies, enemiesRef,
                   currentGoal, goalRef, goalFetch, nextId>>

----------------------------------------------------------------------------
(* Initial states *)

StartStats ==
    [money |-> INITIAL_STATS.money, wood |-> INITIAL_STATS.wood,
     stone |-> INITIAL_STATS.stone, food |-> INITIAL_STATS.food,
     population |-> INITIAL_STATS.population, day |-> 1, era |-> "Primitive"]

\* the state after construction (App.tsx 86-111)
Init ==
    /\ gameStarted = FALSE
    /\ aiEnabled = TRUE
    /\ selectedTool = "Road"
    /\ grid = createInitialGrid
    /\ gridRef = createInitialGrid
    /\ stats = StartStats
    /\ statsRef = StartStats
    /\ enemies = <<>>
    /\ enemiesRef = <<>>
    /\ boats = <<>>
    /\ currentGoal = NoGoal
    /\ goalRef = NoGoal
    /\ goalFetch = "idle"
    /\ newsFeed = <<>>
    /\ nextId = 0
    /\ steps = MaxSteps
    /\ last = Op("init", 0 - 1, 0 - 1, "None", "constructed")

\* A started session without the oracle, all effects run, holding grid g,
\* ledger s, explorers bs and hostiles es: the frame shared by the mid-session
\* initial states below.
SessionFrame(g, s, bs, es, budget) ==
    /\ gameStarted = TRUE
    /\ aiEnabled = FALSE
    /\ selectedTool = "Road"
    /\ grid = g
    /\ gridRef = g
    /\ stats = s
    /\ statsRef = s
    /\ enemies = es
    /\ enemiesRef = es
    /\ boats = bs
    /\ currentGoal = NoGoal
    /\ goalRef = NoGoal
    /\ goalFetch = "idle"
    /\ newsFeed = <<"Settlement established.">>
    /\ nextId = 0
    /\ steps = budget
    /\ last = Op("init", 0 - 1, 0 - 1, "None", "mid_session")

\* the frame with no explorer (no Port was ever built) and no hostile
MidSession(g, s, budget) == SessionFrame(g, s, <<>>, <<>>, budget)

Ledger(m, w, st, f) ==
    [StartStats EXCEPT !.money = m, !.wood = w, !.stone = st, !.food = f]

\* Ledgers a session reaches on an empty grid by building and demolishing
\* (Road 5 + demolition 5 lowers money by 10; Farm, Park and Defense lower wood
\* and stone in steps of 5), the population still 0 so that ticks change nothing:
\*   the start ledger; the ledger of the Commercial scenario; one that pays for
\*   exactly one Defense; one that pays for one Defense and one Road.
MidLedgers ==
    { Ledger(1500, 100, 50, 200),
      Ledger(50, 20, 5, 200),
      Ledger(150, 20, 40, 200),
      Ledger(155, 20, 40, 200) }

\* the grid and the ledger of a session that, from the start ledger, built a
\* Road at (1,1) and upgraded it once
LevelTwoGrid ==
    [Built(createInitialGrid, 1, 1, "Road") EXCEPT ![<<1, 1>>] = UpgradedTile(@)]

LevelTwoLedger ==
    LET c == BUILDINGS["Road"]
        built == Debit(StartStats, c.costMoney, c.costWood, c.costStone)
    IN Debit(built, UpgradeCost(c.costMoney, 1), UpgradeCost(c.costWood, 1),
             UpgradeCost(c.costStone, 1))

InitMid ==
    \/ \E s \in MidLedgers : MidSession(createInitialGrid, s, MaxMidSteps)
    \/ MidSession(LevelTwoGrid, LevelTwoLedger, MaxMidSteps)

\* A settlement of four Residential tiles (population cap 600), built in this
\* order, for the era progression.
EraGrid ==
    Built(Built(Built(Built(createInitialGrid, 0, 0, "Residential"),
                      1, 0, "Residential"), 0, 1, "Residential"), 1, 1, "Residential")

EraLedger(era, population, money) ==
    [StartStats EXCEPT !.era = era, !.population = population, !.money = money,
                       !.day = 40]

\* Ledgers of a long session on that settlement.  Money moves between ticks by
\* any amount (a claimed reward is set by the oracle; commands spend), and the
\* population falls by 5 per tick when starving, so an era may be held with
\* any population and money:
\*   about to cross the Industrial thresholds; beyond the Modern thresholds
\*   while still Primitive; population beyond, money short by less than one
\*   tick's income; Industrial and Modern held after the population and the
\*   money fell back; Future held likewise (reached while more Residential
\*   tiles stood than the four that are left).
EraLedgers ==
    { EraLedger("Primitive", 45, 3000),
      EraLedger("Primitive", 300, 16000),
      EraLedger("Primitive", 300, 2990),
      EraLedger("Industrial", 20, 100),
      EraLedger("Modern", 45, 3000),
      EraLedger("Future", 45, 3000) }

InitEra == \E s \in EraLedgers : MidSession(EraGrid, s, MaxMidSteps)

\* A settlement under attack: a Residential at (0,0) and a Defense at (1,1),
\* built from the start ledger, after the first economy tick (population 5).
HostileGrid == Built(Built(createInitialGrid, 0, 0, "Residential"), 1, 1, "Defense")

HostileLedger ==
    LET r == BUILDINGS["Residential"]
        d == BUILDINGS["Defense"]
        paid == Debit(Debit(StartStats, r.costMoney, r.costWood, r.costStone),
                      d.costMoney, d.costWood, d.costStone)
    IN NewStats(paid, Sweep(HostileGrid))

InitHostile == MidSession(HostileGrid, HostileLedger, MaxHostileSteps)

\* handler runs explored from the harbour
MaxExploreSteps == 4

\* A harbour: from the start ledger a Port was built on the sea next to the
\* fog, at (GRID_SIZE-1, GRID_SIZE-2), demolished and built again, which left two idle explorers on that tile
\* (explorers outlive their Port).
HarbourCell == <<GRID_SIZE - 1, GRID_SIZE - 2>>

HarbourGrid ==
    Built(Demolished(Built(createInitialGrid, HarbourCell[1], HarbourCell[2], "Port"),
                     HarbourCell[1], HarbourCell[2]),
          HarbourCell[1], HarbourCell[2], "Port")

HarbourLedger ==
    LET c == BUILDINGS["Port"]
        once == Debit(StartStats, c.costMoney, c.costWood, c.costStone)
        cleared == [once EXCEPT !.money = @ - DEMOLISH_COST]
    IN Debit(cleared, c.costMoney, c.costWood, c.costStone)

HarbourFleet ==
    <<NewBoat(HarbourCell[1], HarbourCell[2]), NewBoat(HarbourCell[1], HarbourCell[2])>>

\* A young harbour: from the start ledger one Port was built on that tile,
\* which left one idle explorer and a ledger that pays for more buildings.
FirstPortGrid == Built(createInitialGrid, HarbourCell[1], HarbourCell[2], "Port")

FirstPortLedger ==
    LET c == BUILDINGS["Port"]
    IN Debit(StartStats, c.costMoney, c.costWood, c.costStone)

InitExplore ==
    \/ SessionFrame(HarbourGrid, HarbourLedger, HarbourFleet, <<>>, MaxExploreSteps)
    \/ SessionFrame(FirstPortGrid, FirstPortLedger,
                    <<NewBoat(HarbourCell[1], HarbourCell[2])>>, <<>>, MaxExploreSteps)

\* Villages of a long session, for the food and population rules: a lone
\* Residential at (1,1); the same with a Park at (1,0); and a Residential,
\* upgraded once, with a Farm at (0,1).
ResGrid == Built(createInitialGrid, 1, 1, "Residential")

ResParkGrid == Built(ResGrid, 1, 0, "Park")

ResFarmGrid ==
    LET g == Built(ResGrid, 0, 1, "Farm")
    IN [g EXCEPT ![<<1, 1>>] = UpgradedTile(@)]

VillageLedger(population, food) ==
    [StartStats EXCEPT !.population = population, !.food = food, !.money = 1000,
                       !.day = 40]

\* The population moves by the growth of the buildings and by the starvation
\* penalty, the food by production, consumption and theft, so a long session
\* holds any of these pairs:
\*   the first tick of a lone Residential; a famine about to start; the
\*   population at its cap; a last inhabitant starving; a village fed by its
\*   Farm; the same village eating exactly what it has; the same village
\*   grown beyond what the Farm feeds.
Villages ==
    { <<ResGrid, VillageLedger(0, 200)>>,
      <<ResGrid, VillageLedger(20, 3)>>,
      <<ResGrid, VillageLedger(150, 200)>>,
      <<ResParkGrid, VillageLedger(1, 0)>>,
      <<ResFarmGrid, VillageLedger(20, 0)>>,
      <<ResFarmGrid, VillageLedger(80, 1)>>,
      <<ResFarmGrid, VillageLedger(150, 10)>> }

InitVillage == \E v \in Villages : MidSession(v[1], v[2], MaxMidSteps)

\* handler runs explored from the siege
MaxSiegeSteps == 3
\* hostiles on the field when the siege is taken up: one short of the cap
SiegeSize == ENEMY_CAP - 1

\* A siege: the lone Residential at (1,1), undefended, population 20, and
\* hostiles that appeared on the north edge in earlier ticks and have taken
\* their first step (their ids differ from those of the hostiles to come).
SiegeHostile(i) ==
    StepEnemy(NewEnemy(MaxSpawns + i, <<10 * GRID_SIZE - 1, 0>>, "Primitive"), ResGrid)

SiegeHostiles == [i \in 1 .. SiegeSize |-> SiegeHostile(i)]

InitSiege ==
    SessionFrame(ResGrid, VillageLedger(20, 200), <<>>, SiegeHostiles, MaxSiegeSteps)

\* handler runs explored from the fortress
MaxFortSteps == 3

\* A fortress: a Residential at (0,0) guarded by a Defense at (1,0) and a
\* Defense at (1,1) that was upgraded once, population 20.
FortGrid ==
    LET g == Built(Built(Built(createInitialGrid, 0, 0, "Residential"), 1, 0, "Defense"),
                   1, 1, "Defense")
    IN [g EXCEPT ![<<1, 1>>] = UpgradedTile(@)]

InitFort == MidSession(FortGrid, VillageLedger(20, 200), MaxFortSteps)

\* The log of a long session, one item short of its longest: the items the
\* handlers have issued, filed through addNewsItem in this order.
OldNews ==
    <<"Settlement established.", "Insufficient resources", "upgraded", "Upgrade costs",
      "Building at max level.", "Can only build Ports or Bridges on water.",
      "Ports must be built on water.", "Hostiles detected", "Food shortage!",
      "SOCIETAL ADVANCEMENT", "Expedition discovered resources!", "Goal achieved!">>

RECURSIVE Filed(_, _)
Filed(items, n) == IF n = 0 THEN <<>> ELSE addNewsItem(Filed(items, n - 1), items[n])

InitNews ==
    /\ gameStarted = TRUE
    /\ aiEnabled = FALSE
    /\ selectedTool = "Road"
    /\ grid = LevelTwoGrid
    /\ gridRef = LevelTwoGrid
    /\ stats = LevelTwoLedger
    /\ statsRef = LevelTwoLedger
    /\ enemies = <<>>
    /\ enemiesRef = <<>>
    /\ boats = <<>>
    /\ currentGoal = NoGoal
    /\ goalRef = NoGoal
    /\ goalFetch = "idle"
    /\ newsFeed = Filed(OldNews, Len(OldNews))
    /\ nextId = 0
    /\ steps = MaxMidSteps
    /\ last = Op("init", 0 - 1, 0 - 1, "None", "mid_session")

\* handler runs explored from the session with a goal
MaxGoalSteps == 4

\* A session with the oracle, all effects run: the lone Residential at (1,1)
\* before its first economy tick, and a goal the oracle has delivered.
InitGoal ==
    /\ gameStarted = TRUE
    /\ aiEnabled = TRUE
    /\ selectedTool = "Road"
    /\ grid = ResGrid
    /\ gridRef = ResGrid
    /\ stats = VillageLedger(0, 200)
    /\ statsRef = VillageLedger(0, 200)
    /\ enemies = <<>>
    /\ enemiesRef = <<>>
    /\ boats = <<>>
    /\ currentGoal \in OracleGoals
    /\ goalRef = currentGoal
    /\ goalFetch = "idle"
    /\ newsFeed = <<"Settlement established.">>
    /\ nextId = 0
    /\ steps = MaxGoalSteps
    /\ last = Op("init", 0 - 1, 0 - 1, "None", "mid_session")

\* A guarded road: from a ledger of a long session (162 / 20 / 40) a Defense
\* was built at (0,0) and a Road at (1,1), which left money 7, the price of
\* the Road's first upgrade, and a Defense whose upkeep lowers the money at
\* every economy tick.
GuardedRoadGrid == Built(Built(createInitialGrid, 0, 0, "Defense"), 1, 1, "Road")

GuardedRoadLedger ==
    LET d == BUILDINGS["Defense"]
        r == BUILDINGS["Road"]
    IN Debit(Debit(Ledger(162, 20, 40, 200), d.costMoney, d.costWood, d.costStone),
             r.costMoney, r.costWood, r.costStone)

InitUpgrade ==
    \/ MidSession(GuardedRoadGrid, GuardedRoadLedger, MaxMidSteps)
    \/ MidSession(LevelTwoGrid, LevelTwoLedger, MaxMidSteps)

\* handler runs explored from a drawn neighbourhood
MaxLandSteps == 2

\* Neighbourhoods for the land value, drawn rather than built: the tile (1,1)
\* is empty land; of the other tiles, taken row by row, the first k hold an
\* Industrial building and the rest are all of one kind: a level-3 Park on
\* water, forest, or empty land.  Every tile is explored and still holds the
\* land value 1.0 of its creation.
LandFills == {"ParkOnWater", "Forest", "Empty"}

LandTile(kind) ==
    [buildingType |-> CASE kind = "Industrial" -> "Industrial"
                        [] kind = "ParkOnWater" -> "Park"
                        [] OTHER -> "None",
     resourceType |-> CASE kind = "ParkOnWater" -> "Water"
                        [] kind = "Forest" -> "Forest"
                        [] OTHER -> "None",
     landValue    |-> 100,
     level        |-> IF kind = "ParkOnWater" THEN MAX_LEVEL ELSE 1,
     explored     |-> TRUE]

LandGrid(k, fill) ==
    [c \in Cells |->
        IF c = <<1, 1>> THEN LandTile("Empty")
        ELSE IF c[2] * GRID_SIZE + c[1] < k THEN LandTile("Industrial")
        ELSE LandTile(fill)]

InitLand ==
    \E k \in 0 .. GRID_SIZE * GRID_SIZE, fill \in LandFills :
        MidSession(LandGrid(k, fill), StartStats, MaxLandSteps)

\* A session with the oracle, just started, all effects run: the first goal
\* request is in flight.  The exploration has no end (the budget is negative).
InitLive ==
    /\ gameStarted = TRUE
    /\ aiEnabled = TRUE
    /\ selectedTool = "Road"
    /\ grid = createInitialGrid
    /\ gridRef = createInitialGrid
    /\ stats = StartStats
    /\ statsRef = StartStats
    /\ enemies = <<>>
    /\ enemiesRef = <<>>
    /\ boats = <<>>
    /\ currentGoal = NoGoal
    /\ goalRef = NoGoal
    /\ goalFetch = StartFetch(TRUE)
    /\ newsFeed = <<"Settlement established.">>
    /\ nextId = 0
    /\ steps = 0 - 1
    /\ last = Op("start", 0 - 1, 0 - 1, "None", "ai")

----------------------------------------------------------------------------
(* Specifications *)

\* every handler, with the commands aimed at these tools and cells
CmdTools == {"None", "Road", "Defense", "Commercial", "Port"}
CmdCells == {<<0, 0>>, <<1, 1>>, <<GRID_SIZE - 1, 1>>}

NextMid ==
    \/ \E c \in CmdCells : TileClick(c[1], c[2])
    \/ \E t \in CmdTools : SelectTool(t)
    \/ SyncRefs
    \/ EconomyTick
    \/ HostileTickNoSpawn
    \/ BoatTick
    \/ \E id \in {1} : EnemyClick(id)
    \/ ClaimReward

SpecMid == InitMid /\ [][NextMid]_vars

\* the era progression: the same handlers from the ledgers of a long session
SpecEra == InitEra /\ [][NextMid]_vars

\* the upgrades: the same handlers on the guarded road and the level-2 road
SpecUpgrade == InitUpgrade /\ [][NextMid]_vars

\* the land value: commands in the middle, on an edge and in a corner of the
\* drawn neighbourhoods
LandTools == {"None", "Road", "Park"}
LandCells == {<<1, 1>>, <<1, 0>>, <<0, 0>>}

NextLand ==
    \/ \E c \in LandCells : TileClick(c[1], c[2])
    \/ \E t \in LandTools : SelectTool(t)
    \/ EconomyTick
    \/ SyncRefs

SpecLand == InitLand /\ [][NextLand]_vars

\* An oracle that answers every request with null, for ever: the drivers, the
\* responses, the retry timer and the claim command, without end.  The three
\* intervals and the retry timer fire as long as the session lasts, and the
\* oracle answers every request.
NextLive ==
    \/ EconomyTick
    \/ HostileTickNoSpawn
    \/ BoatTick
    \/ GoalNull
    \/ GoalRetry
    \/ ClaimReward
    \/ SyncRefs

SpecLive ==
    /\ InitLive
    /\ [][NextLive]_vars
    /\ WF_vars(EconomyTick)
    /\ WF_vars(HostileTickNoSpawn)
    /\ WF_vars(BoatTick)
    /\ WF_vars(GoalNull)
    /\ WF_vars(GoalRetry)

\* the food and population rules: the same handlers on the villages
SpecVillage == InitVillage /\ [][NextMid]_vars

\* the recent-events log: the same handlers on a log about to fill up
SpecNews == InitNews /\ [][NextMid]_vars

\* the goals: completion, claims and the oracle, with commands on the Residential
GoalCells == {<<1, 1>>}
GoalTools == {"None", "Residential"}

NextGoal ==
    \/ EconomyTick
    \/ ClaimReward
    \/ \E goal \in OracleGoals : GoalArrives(goal)
    \/ GoalNull
    \/ GoalRetry
    \/ SyncRefs
    \/ \E c \in GoalCells : TileClick(c[1], c[2])
    \/ \E t \in GoalTools : SelectTool(t)

SpecGoal == InitGoal /\ [][NextGoal]_vars

\* the hostiles: spawns, movement, turrets, theft and agent clicks
NextHostile ==
    \/ \E pos \in SpawnPositions, announce \in BOOLEAN : HostileTickSpawn(pos, announce)
    \/ HostileTickNoSpawn
    \/ \E id \in 1 .. MaxSpawns : EnemyClick(id)
    \/ SyncRefs
    \/ EconomyTick

SpecHostile == InitHostile /\ [][NextHostile]_vars

\* the explorers: reveals, discoveries and commands on land, sea and fog
ExploreTools == {"None", "Road", "Port", "Farm"}
ExploreCells == {<<1, 1>>, <<GRID_SIZE - 1, 0>>, <<1, GRID_SIZE - 1>>}

NextExplore ==
    \/ BoatTick
    \/ \E c \in ExploreCells : TileClick(c[1], c[2])
    \/ \E t \in ExploreTools : SelectTool(t)
    \/ SyncRefs
    \/ EconomyTick

SpecExplore == InitExplore /\ [][NextExplore]_vars

\* explorer and economy ticks explored from the foggy corner
MaxDriftSteps == 8

\* The young harbour with the fog drawn back to the south-west corner of the
\* map: the explorer of the Port has a long way to sail.
CornerFog == {<<0, GRID_SIZE - 2>>, <<0, GRID_SIZE - 1>>, <<1, GRID_SIZE - 1>>}

\* the water tile of the Port the explorer sets out from
DriftCell == <<GRID_SIZE - 1, 1>>

CornerGrid ==
    [c \in Cells |->
        [Built(createInitialGrid, DriftCell[1], DriftCell[2], "Port")[c]
            EXCEPT !.explored = c \notin CornerFog]]

InitDrift ==
    SessionFrame(CornerGrid, FirstPortLedger,
                 <<NewBoat(DriftCell[1], DriftCell[2])>>, <<>>, MaxDriftSteps)

NextDrift ==
    \/ BoatTick
    \/ EconomyTick
    \/ SyncRefs

SpecDrift == InitDrift /\ [][NextDrift]_vars

\* the siege: the same handlers with the list one short of the cap
SpecSiege == InitSiege /\ [][NextHostile]_vars

\* hostile ticks, agent clicks and economy ticks explored from the fortress
SpecFort == InitFort /\ [][NextHostile]_vars

\* A voyage without end (the budget is negative): the young harbour below
\* the fog of the south row or the harbour of the foggy corner, each with its
\* one idle explorer, or the harbour with its two, all effects run.
InitSail ==
    /\ \/ SessionFrame(FirstPortGrid, FirstPortLedger,
                       <<NewBoat(HarbourCell[1], HarbourCell[2])>>, <<>>, 0 - 1)
       \/ SessionFrame(CornerGrid, FirstPortLedger,
                       <<NewBoat(DriftCell[1], DriftCell[2])>>, <<>>, 0 - 1)
       \/ SessionFrame(HarbourGrid, HarbourLedger, HarbourFleet, <<>>, 0 - 1)

\* the explorer interval, which fires as long as the session lasts, and the renders
NextSail ==
    \/ BoatTick
    \/ SyncRefs

SpecSail == InitSail /\ [][NextSail]_vars /\ WF_vars(BoatTick)

\* handler runs explored from the raided village
MaxRaidSteps == 4

\* A village before a raid: the lone Residential at (1,1), population 20, no
\* hostile on the field yet.
InitRaid == MidSession(ResGrid, VillageLedger(20, 200), MaxRaidSteps)

\* the raid: hostile ticks, and the commands that clear or rebuild the village
RaidTools == {"None", "Residential"}
\* the raiders appear on the west edge
RaidPositions == {pos \in SpawnPositions : pos[1] = 0}

NextRaid ==
    \/ \E pos \in RaidPositions, announce \in BOOLEAN : HostileTickSpawn(pos, announce)
    \/ HostileTickNoSpawn
    \/ TileClick(1, 1)
    \/ \E t \in RaidTools : SelectTool(t)
    \/ SyncRefs

SpecRaid == InitRaid /\ [][NextRaid]_vars

\* handler runs explored from the busy settlement
MaxLedgerSteps == 3

\* A busy settlement, all effects run: an Industrial on the Forest of (0,0),
\* a Residential at (1,1) and a Port with its idle explorer next to the fog,
\* population 20; a hostile that appeared 0.3 from the Industrial six ticks
\* ago and has stood there since, its cooldown run down; the oracle's
\* population goal, which an economy tick has completed.
LedgerGrid ==
    Built(Built(Built(createInitialGrid, 0, 0, "Industrial"), 1, 1, "Residential"),
          HarbourCell[1], HarbourCell[2], "Port")

LedgerGoal ==
    [present |-> TRUE, targetType |-> "population", targetValue |-> 5,
     buildingType |-> "None", reward |-> 100, completed |-> TRUE]

InitLedger ==
    /\ gameStarted = TRUE
    /\ aiEnabled = TRUE
    /\ selectedTool = "Road"
    /\ grid = LedgerGrid
    /\ gridRef = LedgerGrid
    /\ stats = VillageLedger(20, 200)
    /\ statsRef = VillageLedger(20, 200)
    /\ enemies = <<NewEnemy(MaxSpawns + 1, <<3, 0>>, "Primitive")>>
    /\ enemiesRef = enemies
    /\ boats = <<NewBoat(HarbourCell[1], HarbourCell[2])>>
    /\ currentGoal = LedgerGoal
    /\ goalRef = LedgerGoal
    /\ goalFetch = "idle"
    /\ newsFeed = <<"Settlement established.">>
    /\ nextId = 0
    /\ steps = MaxLedgerSteps
    /\ last = Op("init", 0 - 1, 0 - 1, "None", "mid_session")

\* every writer of the ledger: the three ticks, the commands and the claim
LedgerTools == {"None", "Farm", "Industrial"}
LedgerCells == {<<0, 0>>, <<1, 0>>}

NextLedger ==
    \/ EconomyTick
    \/ HostileTickNoSpawn
    \/ BoatTick
    \/ \E c \in LedgerCells : TileClick(c[1], c[2])
    \/ \E t \in LedgerTools : SelectTool(t)
    \/ \E id \in {MaxSpawns + 1} : EnemyClick(id)
    \/ ClaimReward
    \/ SyncRefs

SpecLedger == InitLedger /\ [][NextLedger]_vars

\* every handler from the construction state, the commands aimed at the tools
\* that settle and clear a tile
StartTools == {"None", "Residential"}

\* the coordinates those commands carry: the cells above, a cell in the fog,
\* and coordinates beyond each side of the grid
StartCells ==
    CmdCells \cup {<<1, GRID_SIZE - 1>>, <<GRID_SIZE, 1>>, <<1, 0 - 1>>}

Next ==
    \/ \E enabled \in BOOLEAN : HandleStart(enabled)
    \/ \E c \in StartCells : TileClick(c[1], c[2])
    \/ \E t \in StartTools : SelectTool(t)
    \/ SyncRefs
    \/ EconomyTick
    \/ HostileTickNoSpawn
    \/ \E pos \in SpawnPositions, announce \in BOOLEAN : HostileTickSpawn(pos, announce)
    \/ BoatTick
    \/ \E id \in 1 .. MaxSpawns : EnemyClick(id)
    \/ \E goal \in OracleGoals : GoalArrives(goal)
    \/ GoalNull
    \/ GoalRetry
    \/ ClaimReward

Spec == Init /\ [][Next]_vars

----------------------------------------------------------------------------
(* Properties of the transactions (checked under SpecMid) *)

\* the step is a run of handleTileClick on cell c
ClickAt(c) == steps' # steps /\ last'.op = "click" /\ last'.x = c[1] /\ last'.y = c[2]

\* cell d lies in the 9-cell block centred on cell c
InBlock(c, d) == Abs(d[1] - c[1]) <= 1 /\ Abs(d[2] - c[2]) <= 1

\* every tile of the block centred on c has the land value of its neighbourhood in g
BlockCurrent(g, c) ==
    \A d \in Cells : InBlock(c, d) => g[d].landValue = calculateLandValue(g, d[1], d[2])

\* what the command on cell c asks for, with the selected tool, on the grid g
CommandCost(g, c) ==
    LET config == BUILDINGS[selectedTool]
        level == g[c].level
    IN IF selectedTool = "None"
       THEN [money |-> 5, wood |-> 0, stone |-> 0]
       ELSE IF g[c].buildingType = selectedTool
       THEN [money |-> (config.costMoney * Pow(3, level)) \div Pow(2, level),
             wood  |-> (config.costWood * Pow(3, level)) \div Pow(2, level),
             stone |-> (config.costStone * Pow(3, level)) \div Pow(2, level)]
       ELSE [money |-> config.costMoney, wood |-> config.costWood,
             stone |-> config.costStone]

\* the ledger s cannot pay for the command on cell c
ShortOfResources(s, g, c) ==
    LET cost == CommandCost(g, c)
    IN s.money < cost.money \/ s.wood < cost.wood \/ s.stone < cost.stone

\* C1: a build, upgrade or demolish command whose cost the ledger the handler
\* reads cannot pay leaves the ledger and every tile unchanged and spawns no
\* explorer.
C1_RejectedCommandChangesNothing ==
    [][\A c \in Cells :
          (ClickAt(c) /\ ShortOfResources(statsRef, gridRef, c))
          => (stats' = stats /\ grid' = grid /\ boats' = boats)]_vars

\* the scenario of C1: Commercial refused on the ledger 50 / 20 / 5
C1_Witness ==
    /\ last.op = "click" /\ last.outcome = "build_insufficient"
    /\ last.tool = "Commercial"
    /\ stats.money = 50 /\ stats.wood = 20 /\ stats.stone = 5
    /\ grid[<<last.x, last.y>>].buildingType = "None"

\* C2: a successful build, upgrade or demolish that starts with money, wood and
\* stone all >= 0 ends with all three >= 0.
C2_TransactionKeepsCountersNonNegative ==
    [][(steps' # steps /\ last'.op = "click"
        /\ last'.outcome \in {"built", "upgraded", "demolished"}
        /\ stats.money >= 0 /\ stats.wood >= 0 /\ stats.stone >= 0)
       => (stats'.money >= 0 /\ stats'.wood >= 0 /\ stats'.stone >= 0)]_vars

\* C3: money, wood, stone, food and population are >= 0 in every reachable state.
C3_CountersNonNegative ==
    /\ stats.money >= 0 /\ stats.wood >= 0 /\ stats.stone >= 0
    /\ stats.food >= 0 /\ stats.population >= 0

\* C4: after a successful upgrade at (x,y) the tile and its in-bounds neighbours
\* hold the land value of their neighbourhood in the resulting grid.
C4_UpgradeRecomputesBlock ==
    (last.op = "click" /\ last.outcome = "upgraded")
    => BlockCurrent(grid, <<last.x, last.y>>)

\* C5: after a successful demolish at (x,y) the tile and its in-bounds neighbours,
\* diagonal ones included, hold the land value of their neighbourhood in the
\* resulting grid.
C5_DemolishRecomputesBlock ==
    (last.op = "click" /\ last.outcome = "demolished")
    => BlockCurrent(grid, <<last.x, last.y>>)

\* C6: a successful build at (x,y) leaves every tile of the 9-cell block centred
\* on (x,y) with the land value of its neighbourhood in the resulting grid, and
\* every tile outside the block with the land value it had.
C6_BuildRecomputesBlockOnly ==
    [][\A c \in Cells :
          (ClickAt(c) /\ last'.outcome = "built")
          => /\ BlockCurrent(grid', c)
             /\ \A d \in Cells : ~InBlock(c, d) => grid'[d].landValue = grid[d].landValue]_vars

\* a Defense was built in the corner (0,0): its neighbour (0,1) gained the
\* Defense bonus while the far column, outside the block, kept the start value
C6_Witness ==
    /\ last.op = "click" /\ last.outcome = "built" /\ last.tool = "Defense"
    /\ last.x = 0 /\ last.y = 0
    /\ grid[<<0, 1>>].landValue = calculateLandValue(grid, 0, 1)
    /\ grid[<<0, 1>>].landValue # 100
    /\ grid[<<GRID_SIZE - 1, 1>>].landValue = 100
    /\ calculateLandValue(grid, GRID_SIZE - 1, 1) # 100

\* C7 as stated: no step lowers the level of a tile.
C7_LevelNeverDecreases ==
    [][\A c \in Cells : grid'[c].level >= grid[c].level]_vars

\* C7 amended: the level of a tile changes only in a successful upgrade of that
\* tile with the tool of its building, which raises it by one, or in a
\* successful demolish of that tile, which resets it to 1.
C7_LevelChangesByUpgradeOrDemolish ==
    [][\A c \in Cells :
          grid'[c].level # grid[c].level
          => /\ ClickAt(c)
             /\ \/ /\ last'.outcome = "upgraded"
                   /\ grid[c].buildingType = last'.tool
                   /\ grid'[c].level = grid[c].level + 1
                \/ /\ last'.outcome = "demolished"
                   /\ grid'[c].level = 1]_vars

\* an upgrade raised a fresh building to level 2
C7_Witness ==
    /\ last.op = "click" /\ last.outcome = "upgraded"
    /\ grid[<<last.x, last.y>>].level = 2
    /\ grid[<<last.x, last.y>>].buildingType = last.tool

\* C8: every tile's level is 1, 2 or 3 in every reachable state, and an upgrade
\* command on a tile at level 3 changes neither the ledger nor the grid.
C8_LevelBoundedAndCapRejects ==
    /\ [](\A c \in Cells : grid[c].level \in {1, 2, 3})
    /\ [][\A c \in Cells :
             (ClickAt(c) /\ grid[c].explored /\ selectedTool # "None"
              /\ grid[c].buildingType = selectedTool /\ grid[c].level = 3)
             => (stats' = stats /\ grid' = grid)]_vars

\* an upgrade was refused on a tile at level 3
C8_Witness ==
    /\ last.op = "click" /\ last.outcome = "max_level"
    /\ grid[<<last.x, last.y>>].level = 3
    /\ grid[<<last.x, last.y>>].buildingType = last.tool

----------------------------------------------------------------------------
(* Properties of the era progression (checked under SpecEra) *)

\* the place of an era in the order Primitive < Industrial < Modern < Future
EraRank(era) == CHOOSE i \in 1 .. Len(Eras) : Eras[i] = era

\* C9: no step moves the era backwards, a step advances it by at most one place
\* in the order Primitive < Industrial < Modern < Future, and only an economy
\* tick changes it.
C9_EraAdvancesOneStepInTicksOnly ==
    [][/\ EraRank(stats'.era) >= EraRank(stats.era)
       /\ EraRank(stats'.era) <= EraRank(stats.era) + 1
       /\ stats'.era # stats.era => (steps' # steps /\ last'.op = "economy")]_vars

\* an economy tick moved the era to Industrial although the population and the
\* money it read already met the Modern thresholds (an economy tick never
\* lowers the money of this settlement, whose buildings all earn)
C9_Witness ==
    /\ last.op = "economy" /\ last.outcome = "era_advanced"
    /\ stats.era = "Industrial"
    /\ stats.population >= 300
    /\ stats.money >= 16000

----------------------------------------------------------------------------
(* Properties of the hostiles (checked under SpecHostile) *)

\* C10: no hostile in the list has hp <= 0, and no step raises the hp of a
\* hostile that stays in the list.
C10_HostilesAliveAndHpNeverRises ==
    /\ [](\A i \in 1 .. Len(enemies) : enemies[i].hp > 0)
    /\ [][\A i \in 1 .. Len(enemies) : \A j \in 1 .. Len(enemies') :
             enemies'[j].id = enemies[i].id => enemies'[j].hp <= enemies[i].hp]_vars

\* an agent click took the last hp of a hostile, which left the list
C10_Witness ==
    /\ last.op = "agent" /\ last.outcome = "hit"
    /\ nextId >= 1
    /\ enemies = <<>>

\* the hostiles a hostile tick runs its movement pass over: the list, with the
\* hostile the tick has just appended when it spawned one
Processed ==
    IF nextId' # nextId
    THEN Append(enemies, NewEnemy(nextId', <<last'.x, last'.y>>, statsRef.era))
    ELSE enemies

\* the step is a run of the hostile tick
HostileTickStep == steps' # steps /\ last'.op = "hostile"

\* C11: in a hostile tick the ledger is touched only if some hostile that
\* survives the tick's Defense damage was in attack range with its cooldown
\* expired: a hostile whose hp is <= 0 after the damage steals nothing.
C11_DyingHostileDoesNotSteal ==
    [][(HostileTickStep /\ stats' # stats)
       => \E i \in 1 .. Len(Processed) :
             /\ Attacks(Processed[i], gridRef)
             /\ StepEnemy(Processed[i], gridRef).hp > 0]_vars

----------------------------------------------------------------------------
(* Properties of the explorers (checked under SpecExplore) *)

\* the cells a step reveals
Revealed == {c \in Cells : ~grid[c].explored /\ grid'[c].explored}

\* the step is a run of the explorer tick
BoatTickStep == steps' # steps /\ last'.op = "explorer"

\* C12: an explorer tick grants 20 wood per Forest tile and 10 stone per Stone
\* tile that it turns from unexplored to explored and nothing for any other
\* tile, however many explorers reveal the tile in that tick; when it reveals
\* no tile it changes no tile and no money, wood or stone; and no step turns
\* an explored tile back to unexplored, so a tile is rewarded at most once.
C12_RevealRewardsOnce ==
    /\ [][BoatTickStep =>
            /\ stats'.wood = stats.wood
                 + 20 * Cardinality({c \in Revealed : grid[c].resourceType = "Forest"})
            /\ stats'.stone = stats.stone
                 + 10 * Cardinality({c \in Revealed : grid[c].resourceType = "Stone"})
            /\ (\A c \in Revealed : grid[c].resourceType \in {"None", "Water"})
                  => stats'.money = stats.money
            /\ Revealed = {} => grid' = grid]_vars
    /\ [][\A c \in Cells : grid[c].explored => grid'[c].explored]_vars

\* two explorers at the same position revealed the Stone tile
\* (GRID_SIZE-2, GRID_SIZE-1) in the same tick: the stone of the harbour ledger
\* rose by 10, once
C12_Witness ==
    /\ last.op = "explorer" /\ last.outcome = "found"
    /\ Len(boats) = 2
    /\ boats[1].x = boats[2].x /\ boats[1].y = boats[2].y
    /\ grid[<<GRID_SIZE - 2, GRID_SIZE - 1>>].explored
    /\ ~grid[<<GRID_SIZE - 3, GRID_SIZE - 1>>].explored
    /\ stats.stone = HarbourLedger.stone + 10

\* the tool does not fit the tile: water takes a Port or a Road only, a Port
\* takes water only
PlacementBroken(tile, tool) ==
    \/ tile.resourceType = "Water" /\ tool \notin {"Port", "Road"}
    \/ tool = "Port" /\ tile.resourceType # "Water"

\* C13: in every reachable state every tile with a building is explored, every
\* Port stands on Water and every building on Water is a Port or a Road; and a
\* build command (a tool other than None) whose tool does not fit the tile, or
\* whose tile holds a building of another type, changes neither ledger nor grid.
C13_PlacementRules ==
    /\ [](\A c \in Cells :
            grid[c].buildingType # "None"
            => /\ grid[c].explored
               /\ grid[c].buildingType = "Port" => grid[c].resourceType = "Water"
               /\ grid[c].resourceType = "Water" => grid[c].buildingType \in {"Port", "Road"})
    /\ [][\A c \in Cells :
             (/\ ClickAt(c)
              /\ selectedTool # "None"
              /\ \/ PlacementBroken(grid[c], selectedTool)
                 \/ grid[c].buildingType \notin {"None", selectedTool})
             => (stats' = stats /\ grid' = grid)]_vars

\* a Farm the ledger could pay for was refused on the open sea
C13_Witness ==
    /\ last.op = "click" /\ last.outcome = "water_rejected" /\ last.tool = "Farm"
    /\ grid[<<last.x, last.y>>].resourceType = "Water"
    /\ grid[<<last.x, last.y>>].buildingType = "None"
    /\ Affordable(stats, BUILDINGS["Farm"].costMoney, BUILDINGS["Farm"].costWood,
                  BUILDINGS["Farm"].costStone)

----------------------------------------------------------------------------
(* Properties of the command guards (checked under Spec) *)

\* the step is a run of handleTileClick
TileClickStep == steps' # steps /\ last'.op = "click"

\* the command the step ran had nothing to act on: the session not started,
\* the coordinates outside the grid, or the tile unexplored
Inert ==
    \/ ~gameStarted
    \/ ~InGrid(last'.x, last'.y)
    \/ ~grid[<<last'.x, last'.y>>].explored

\* C14: a tile command issued before the session has started, or with
\* coordinates outside the grid, or on an unexplored tile, leaves the ledger,
\* the grid, the explorers and the hostiles unchanged whatever the tool; and
\* after it, in a started session, the three periodic drivers can still run.
C14_InertCommandIsNoOp ==
    /\ [][(TileClickStep /\ Inert)
          => /\ stats' = stats /\ grid' = grid /\ boats' = boats /\ enemies' = enemies
             /\ gameStarted' = gameStarted]_vars
    /\ []((/\ last.op = "click"
           /\ last.outcome \in {"not_started", "out_of_bounds", "fog"}
           /\ gameStarted /\ steps > 0)
          => (ENABLED EconomyTick /\ ENABLED HostileTickNoSpawn /\ ENABLED BoatTick))

\* with Residential selected and paid for by the ledger, a command on the fog
\* tile (1, GRID_SIZE-1) was ignored
C14_Witness ==
    /\ gameStarted
    /\ last.op = "click" /\ last.outcome = "fog" /\ last.tool = "Residential"
    /\ last.x = 1 /\ last.y = GRID_SIZE - 1
    /\ ~grid[<<1, GRID_SIZE - 1>>].explored
    /\ grid[<<1, GRID_SIZE - 1>>].buildingType = "None"
    /\ stats = StartStats

----------------------------------------------------------------------------
(* Properties of the demolish command (checked under SpecMid) *)

\* the ledger s after a demolish of a tile whose resource is res
DemolishedLedger(s, res) ==
    [s EXCEPT !.money = @ - 5, !.wood = @ + (IF res = "Forest" THEN 10 ELSE 0)]

\* C15: a command with the tool None on an explored tile that holds a building,
\* with ledger money >= 5, lowers money by exactly 5, raises wood by exactly 10
\* iff the tile's resource is Forest, changes nothing else of the ledger, and
\* leaves the tile with building None at level 1; with ledger money < 5, or on
\* a tile without a building, it changes neither ledger nor grid.
C15_DemolishChargesFiveOrNothing ==
    [][\A c \in Cells :
          (ClickAt(c) /\ selectedTool = "None" /\ grid[c].explored)
          => IF grid[c].buildingType # "None" /\ stats.money >= 5
             THEN /\ stats' = DemolishedLedger(stats, grid[c].resourceType)
                  /\ grid'[c].buildingType = "None"
                  /\ grid'[c].level = 1
             ELSE stats' = stats /\ grid' = grid]_vars

----------------------------------------------------------------------------
(* Properties of the food and population rules (checked under SpecVillage) *)

\* the step is a run of the economy tick
EconomyTickStep == steps' # steps /\ last'.op = "economy"

\* ceil(population * 0.2)
Consumption == (stats.population + 4) \div 5

\* 15 * level per Farm
Production ==
    SumF([c \in Cells |-> IF grid[c].buildingType = "Farm" THEN 15 * grid[c].level ELSE 0],
         Cells)

\* sum over the buildings of popGen * level
Growth ==
    SumF([c \in Cells |-> IF grid[c].buildingType = "None" THEN 0
                          ELSE BUILDINGS[grid[c].buildingType].popGen * grid[c].level],
         Cells)

\* 150 * number of Residential tiles
PopulationCap == 150 * Cardinality({c \in Cells : grid[c].buildingType = "Residential"})

\* C16 as stated: when food + production - consumption < 0 an economy tick
\* sets food to 0 and population to max(0, population - 5); otherwise it sets
\* food to that difference and population to min(population + growth, cap).
C16_StarvingLosesFive ==
    [][EconomyTickStep =>
         IF stats.food + Production - Consumption < 0
         THEN /\ stats'.food = 0
              /\ stats'.population = Max(0, stats.population - 5)
         ELSE /\ stats'.food = stats.food + Production - Consumption
              /\ stats'.population = Min(stats.population + Growth, PopulationCap)]_vars

\* C16 amended: the cap of 150 per Residential tile bounds the population in
\* the starving branch too: when food + production - consumption < 0 the tick
\* sets food to 0 and population to max(0, min(population - 5, cap));
\* otherwise food becomes that difference and population becomes
\* min(population + growth, cap).
C16_FoodAndPopulation ==
    [][EconomyTickStep =>
         IF stats.food + Production - Consumption < 0
         THEN /\ stats'.food = 0
              /\ stats'.population = Max(0, Min(stats.population - 5, PopulationCap))
         ELSE /\ stats'.food = stats.food + Production - Consumption
              /\ stats'.population = Min(stats.population + Growth, PopulationCap)]_vars

\* the famine village (population 20, food 3) lost its only Residential and
\* then ran one economy tick: starving, with the cap at 0, nobody is left
C16_Witness ==
    /\ last.op = "economy"
    /\ stats.day = 41
    /\ stats.food = 0 /\ stats.population = 0
    /\ \A c \in Cells : grid[c].buildingType \notin {"Residential", "Park", "Farm"}
    /\ grid[<<1, 1>>].buildingType = "None"

\* the tiles with a building other than a Road
Structures == {c \in Cells : grid[c].buildingType \notin {"None", "Road"}}

\* the Manhattan distance, in tenths, from hostile e to cell c
Manhattan(e, c) == Abs(e.x - 10 * c[1]) + Abs(e.y - 10 * c[2])

\* hostile e is within d tenths of some structure
Within(e, d) == \E c \in Structures : Manhattan(e, c) <= d

\* C17: a hostile that a hostile tick leaves in the list and that stood within
\* 0.5 of the nearest non-empty non-Road tile keeps its position; one that
\* stood nearer than 1.0 with attackCooldown <= 0 has attackCooldown 5 after
\* the tick.
C17_HoldsPositionAndResetsCooldown ==
    [][HostileTickStep =>
         \A i \in 1 .. Len(Processed) : \A j \in 1 .. Len(enemies') :
            enemies'[j].id = Processed[i].id
            => /\ Within(Processed[i], 5)
                  => (enemies'[j].x = Processed[i].x /\ enemies'[j].y = Processed[i].y)
               /\ (Within(Processed[i], 9) /\ Processed[i].attackCooldown <= 0)
                  => enemies'[j].attackCooldown = 5]_vars

\* a hostile that appeared 0.3 from the Residential at (0,0) with cooldown 0
\* ended its first tick where it appeared, with cooldown 5
C17_Witness ==
    /\ last.op = "hostile"
    /\ \E j \in 1 .. Len(enemies) :
          /\ enemies[j].x + enemies[j].y = 3
          /\ enemies[j].attackCooldown = 5
          /\ enemies[j].hp = ENEMY_BASE_HP - TURRET_DAMAGE
    /\ grid[<<0, 0>>].buildingType = "Residential"

----------------------------------------------------------------------------
(* Properties of the spawn gate (checked under SpecSiege) *)

\* C18: the list of hostiles never holds more than 10 hostiles.
C18_HostilesWithinCap == Len(enemies) <= ENEMY_CAP

----------------------------------------------------------------------------
(* Properties of the recent-events log (checked under SpecNews) *)

\* the longest log: the last 12 items kept plus the new one
LogLimit == 13

\* the most items one handler run files
MaxFiled == 2

\* the log after filing one item: a full log loses its oldest item
Push(feed, item) == Append(IF Len(feed) >= LogLimit THEN Tail(feed) ELSE feed, item)

RECURSIVE PushAll(_, _)
PushAll(feed, items) ==
    IF items = <<>> THEN feed ELSE PushAll(Push(feed, Head(items)), Tail(items))

\* C19: the log never holds more than 13 items, and every step leaves it
\* unchanged or files items at its end, one at a time, a full log losing
\* exactly its oldest item each time and the rest keeping their order.
C19_LogBoundedAndAppendOnly ==
    /\ [](Len(newsFeed) <= LogLimit)
    /\ [][\E k \in 0 .. MaxFiled :
             /\ k <= Len(newsFeed')
             /\ newsFeed' = PushAll(newsFeed,
                                    SubSeq(newsFeed', Len(newsFeed') - k + 1, Len(newsFeed')))]_vars

\* two notifications were filed on the log of 12: the first filled it, the
\* second dropped its oldest item and kept the others in order
C19_Witness ==
    /\ Len(newsFeed) = LogLimit
    /\ SubSeq(newsFeed, 1, Len(OldNews) - 1) = Tail(OldNews)
    /\ last.op = "click"
    /\ newsFeed[LogLimit] = "Building at max level."

----------------------------------------------------------------------------
(* Properties of the goals (checked under SpecGoal) *)

\* the step is a run of handleClaimReward
ClaimStep == steps' # steps /\ last'.op = "claim"

\* C20: a claim either changes neither the ledger nor the goal, or finds a
\* goal that is present and completed, adds its reward to money and clears
\* it; and a completed goal comes only from an economy tick that completes
\* the goal then present, so a claimed goal is never paid again.
C20_ClaimPaysCompletedGoalOnce ==
    /\ [][ClaimStep =>
            \/ stats' = stats /\ currentGoal' = currentGoal
            \/ /\ currentGoal.present /\ currentGoal.completed
               /\ stats' = [stats EXCEPT !.money = @ + currentGoal.reward]
               /\ currentGoal' = NoGoal]_vars
    /\ [][(currentGoal'.completed /\ currentGoal' # currentGoal)
          => /\ steps' # steps /\ last'.op = "economy"
             /\ currentGoal.present /\ ~currentGoal.completed
             /\ currentGoal' = [currentGoal EXCEPT !.completed = TRUE]]_vars

\* the population goal (reward 100) was completed by the first economy tick
\* and claimed; a second claim found no goal and paid nothing
C20_Witness ==
    /\ last.op = "claim" /\ last.outcome = "nothing"
    /\ ~currentGoal.present
    /\ stats.day = VillageLedger(0, 200).day + 1
    /\ stats.population = 5
    /\ stats.money = NewStats(VillageLedger(0, 200), Sweep(ResGrid)).money + 100

----------------------------------------------------------------------------
(* Properties of a session without the oracle (checked under Spec) *)

\* C21: in a session started with aiEnabled = false no goal request is in
\* flight or waiting to be retried and no step is a goal response; the goal is
\* null in every state; an economy tick produces the ledger it produces with
\* the oracle on (the sweep of the grid applied to the ledger) and a claim
\* changes nothing; and while the exploration has steps left the three
\* drivers and the commands can run.
C21_NoOracleNoGoal ==
    /\ []((gameStarted /\ ~aiEnabled)
          => (goalFetch = "idle" /\ currentGoal = NoGoal /\ goalRef = NoGoal))
    /\ [][(~aiEnabled /\ steps' # steps)
          => /\ last'.op # "goal"
             /\ last'.op = "economy" => stats' = NewStats(stats, Sweep(grid))
             /\ last'.op = "claim" => stats' = stats]_vars
    /\ []((gameStarted /\ ~aiEnabled /\ steps > 0)
          => /\ ENABLED EconomyTick
             /\ ENABLED HostileTickNoSpawn
             /\ ENABLED BoatTick
             /\ ENABLED ClaimReward
             /\ \A c \in CmdCells : ENABLED TileClick(c[1], c[2]))

\* a session started without the oracle ran an economy tick and then a claim,
\* which found no goal
C21_Witness ==
    /\ gameStarted /\ ~aiEnabled
    /\ last.op = "claim" /\ last.outcome = "nothing"
    /\ stats.day = 2
    /\ goalFetch = "idle"
    /\ ~currentGoal.present

----------------------------------------------------------------------------
(* Properties of the fleet (checked under SpecExplore) *)

\* the step is a successful build of a Port
PortBuildStep == TileClickStep /\ last'.outcome = "built" /\ last'.tool = "Port"

\* C22: a successful Port build appends exactly one explorer, on the tile of
\* the Port, idle and without a target, and leaves the others as they were;
\* every other step, a demolish of a Port included, keeps the number of
\* explorers.
C22_ExplorersComeFromPortBuilds ==
    [][IF PortBuildStep
       THEN boats' = Append(boats, [x |-> DInt(last'.x), y |-> DInt(last'.y),
                                    targetX |-> 0 - 1, targetY |-> 0 - 1,
                                    state |-> "idle"])
       ELSE Len(boats') = Len(boats)]_vars

\* in the young harbour a second Port was built at (GRID_SIZE-1, 0) and
\* demolished: its explorer is still there, idle on that tile
C22_Witness ==
    /\ last.op = "click" /\ last.outcome = "demolished"
    /\ last.x = GRID_SIZE - 1 /\ last.y = 0
    /\ grid[<<GRID_SIZE - 1, 0>>].buildingType = "None"
    /\ Len(boats) = 2
    /\ boats[2].x = DInt(GRID_SIZE - 1) /\ boats[2].y = DInt(0)
    /\ boats[2].state = "idle"
    /\ stats.wood = FirstPortLedger.wood - BUILDINGS["Port"].costWood

----------------------------------------------------------------------------
(* Properties of the tile objects (checked under SpecExplore) *)

\* What the array g that handleTileClick(x, y) read at App.tsx 437 shows when
\* the handler has published newGrid: currentGrid.map(row => [...row]) copies
\* the rows and shares the tile objects, so the landValue assignments of
\* App.tsx 492 and 542 land in the tiles of g too, except at (x, y), where
\* newGrid holds a new object (App.tsx 470, 485, 530).
SharedTiles(g, newGrid, x, y) ==
    [c \in Cells |->
        IF c = <<x, y>> THEN g[c]
        ELSE [g[c] EXCEPT !.landValue = newGrid[c].landValue]]

\* grids g and h show the same landValue and explored flag on every tile
SameValues(g, h) ==
    \A c \in Cells : g[c].landValue = h[c].landValue /\ g[c].explored = h[c].explored

\* C23: a grid obtained before a build, a demolish or an explorer reveal shows
\* afterwards, on every tile, the landValue and the explored flag it showed
\* before: the array a tile command read (App.tsx 437) after the command, and
\* the array an explorer tick read (App.tsx 350, still held by gridRef, whose
\* effect has not run) after the tick.
C23_SnapshotKeepsItsValues ==
    [][/\ (TileClickStep /\ last'.outcome \in {"built", "demolished", "upgraded"})
          => SameValues(SharedTiles(gridRef, grid', last'.x, last'.y), gridRef)
       /\ BoatTickStep => SameValues(gridRef', gridRef)]_vars

----------------------------------------------------------------------------
(* Properties of the era thresholds (checked under SpecEra) *)

\* the era that follows era e (Future follows itself)
Successor(e) == Eras[Min(EraRank(e) + 1, Len(Eras))]

\* C24: an economy tick moves the era from E to its successor iff E is not
\* Future, the population the tick computes is at least the successor's
\* population threshold and the money the ledger holds when the tick runs is
\* at least the successor's money threshold; otherwise the tick leaves the era.
C24_EraAdvancesIffThresholdsMet ==
    [][EconomyTickStep =>
         IF /\ stats.era # "Future"
            /\ stats'.population >= ERA_THRESHOLDS[Successor(stats.era)].pop
            /\ stats.money >= ERA_THRESHOLDS[Successor(stats.era)].money
         THEN stats'.era = Successor(stats.era)
         ELSE stats'.era = stats.era]_vars

\* the settlement with population 300 and money 2990 ran one economy tick:
\* the income lifted the money past 3000, the era is still Primitive
C24_Witness ==
    /\ last.op = "economy" /\ last.outcome = "ticked"
    /\ stats.day = 41
    /\ stats.era = "Primitive"
    /\ stats.population >= ERA_THRESHOLDS["Industrial"].pop
    /\ stats.money >= ERA_THRESHOLDS["Industrial"].money

----------------------------------------------------------------------------
(* Properties of the upgrade command (checked under SpecUpgrade) *)

\* floor(base * 1.5^level)
ScaledCost(base, level) == (base * Pow(3, level)) \div Pow(2, level)

\* C25: a command with the tool of the building on an explored tile at level
\* L < 3 is accepted iff the ledger holds floor(cost * 1.5^L) of money, wood
\* and stone; accepted, it debits exactly those amounts, raises the level to
\* L + 1 and leaves the rest of the tile; refused, it changes neither ledger
\* nor grid.
C25_UpgradeChargesScaledCost ==
    [][\A c \in Cells :
          (/\ ClickAt(c) /\ selectedTool # "None" /\ grid[c].explored
           /\ grid[c].buildingType = selectedTool /\ grid[c].level < 3)
          => LET config == BUILDINGS[selectedTool]
                 cm == ScaledCost(config.costMoney, grid[c].level)
                 cw == ScaledCost(config.costWood, grid[c].level)
                 cs == ScaledCost(config.costStone, grid[c].level)
             IN IF stats.money >= cm /\ stats.wood >= cw /\ stats.stone >= cs
                THEN /\ last'.outcome = "upgraded"
                     /\ stats' = [stats EXCEPT !.money = @ - cm, !.wood = @ - cw,
                                               !.stone = @ - cs]
                     /\ grid' = [grid EXCEPT ![c].level = @ + 1]
                ELSE /\ last'.outcome = "upgrade_insufficient"
                     /\ stats' = stats /\ grid' = grid]_vars

----------------------------------------------------------------------------
(* Properties of the land value (checked under SpecLand) *)

\* C26: in every state every tile holds a land value within [0.5, 2.5], and
\* calculateLandValue applied to any tile of the grid, in the middle, on an
\* edge or in a corner, returns a value within [0.5, 2.5].
C26_LandValueWithinBounds ==
    \A c \in Cells :
        /\ grid[c].landValue >= 50 /\ grid[c].landValue <= 250
        /\ calculateLandValue(grid, c[1], c[2]) >= 50
        /\ calculateLandValue(grid, c[1], c[2]) <= 250

\* a Road was built on (1,1) among eight Industrial neighbours: the sum, 1.0
\* - 8 * 0.15, lies below the floor and the tile holds 0.5
C26_Witness ==
    /\ last.op = "click" /\ last.outcome = "built" /\ last.x = 1 /\ last.y = 1
    /\ \A c \in Cells \ {<<1, 1>>} : grid[c].buildingType = "Industrial"
    /\ grid[<<1, 1>>].landValue = 50

----------------------------------------------------------------------------
(* Properties of the goal check (checked under SpecGoal) *)

\* the census of the tick: the tiles of the grid that hold building b
Census(b) == Cardinality({c \in Cells : grid[c].buildingType = b})

\* the goal is satisfied by the ledger s and the census
Satisfied(goal, s) ==
    \/ goal.targetType = "money" /\ s.money >= goal.targetValue
    \/ goal.targetType = "population" /\ s.population >= goal.targetValue
    \/ goal.targetType = "building_count" /\ Census(goal.buildingType) >= goal.targetValue

\* C27: with the oracle on, an economy tick that finds a goal present and not
\* completed marks it completed iff the goal is satisfied by the ledger the
\* tick produces (money, population) or by the census of the tick
\* (building_count), and changes nothing else of it; a tick leaves a completed
\* goal as it is.
C27_TickCompletesSatisfiedGoal ==
    [][(EconomyTickStep /\ aiEnabled /\ currentGoal.present)
       => IF ~currentGoal.completed /\ Satisfied(currentGoal, stats')
          THEN currentGoal' = [currentGoal EXCEPT !.completed = TRUE]
          ELSE currentGoal' = currentGoal]_vars

----------------------------------------------------------------------------
(* Properties of the retry (checked under SpecLive) *)

\* C28: with the oracle on, a null response is followed, in the end, by
\* another goal request; and when every response is null the goal stays null
\* and the economy, hostile and explorer ticks each run again and again.
C28_NullIsRetriedAndDriversRun ==
    /\ (last.op = "goal" /\ last.outcome = "null") ~> (goalFetch = "pending")
    /\ [](~currentGoal.present)
    /\ []<><<EconomyTick>>_vars
    /\ []<><<HostileTickNoSpawn>>_vars
    /\ []<><<BoatTick>>_vars

\* after a null response and an economy tick the retry timer fired: a new
\* request is in flight and there is still no goal
C28_Witness ==
    /\ aiEnabled
    /\ last.op = "goal" /\ last.outcome = "retry"
    /\ goalFetch = "pending"
    /\ stats.day > 1
    /\ ~currentGoal.present

----------------------------------------------------------------------------
(* The reward of a reveal (checked under SpecExplore) *)

\* the feed after n discovery notifications
RECURSIVE Announced(_, _)
Announced(feed, n) ==
    IF n = 0 THEN feed
    ELSE Announced(addNewsItem(feed, "Expedition discovered resources!"), n - 1)

\* the reveals of the step that newly explore a Forest or Stone tile
FindingReveals == BoatRun(TRUE).finds

\* C29: an explorer tick grants 20 wood per newly revealed Forest tile and 10
\* stone per newly revealed Stone tile, and for each reveal that newly explores
\* a Forest or Stone tile exactly 50 money, once, with one discovery
\* notification; when nothing carrying a resource is revealed, wood, stone,
\* money and the feed are unchanged.
C29_FindingRevealPaysBonusOnce ==
    [][BoatTickStep =>
         /\ stats'.wood = stats.wood
              + 20 * Cardinality({c \in Revealed : grid[c].resourceType = "Forest"})
         /\ stats'.stone = stats.stone
              + 10 * Cardinality({c \in Revealed : grid[c].resourceType = "Stone"})
         /\ stats'.money = stats.money + 50 * FindingReveals
         /\ newsFeed' = Announced(newsFeed, FindingReveals)]_vars

----------------------------------------------------------------------------
(* The target of an explorer (checked under SpecDrift) *)

\* the tile an explorer sails for
Target(b) == <<b.targetX, b.targetY>>

\* C30: in an explorer tick an agent whose target tile is still unexplored
\* after the tick keeps exactly that target, whatever the coordinates of the
\* target; an agent whose target changes had none or one that is explored, and
\* its new target is a tile unexplored when the tick began, at minimal
\* Manhattan distance from the agent.
C30_TargetKeptWhileUnexplored ==
    [][BoatTickStep =>
         \A i \in 1 .. Len(boats) :
            LET b == boats[i]
                old == Target(b)
                new == Target(boats'[i])
            IN /\ (b.targetX # 0 - 1 /\ ~grid'[old].explored) => new = old
               /\ new # old =>
                     /\ new \in Unexplored(grid)
                     /\ \A d \in Unexplored(grid) :
                           ~DLess(BoatDist(b, d), BoatDist(b, new))]_vars

----------------------------------------------------------------------------
(* The damage of the Defense tiles (checked under SpecFort) *)

\* the Defense tiles of level l in the in-bounds 3x3 block centred on the
\* rounded position (x, y), a position in tenths of a tile
Turrets(x, y, l) ==
    {c \in Cells : /\ Abs(c[1] - (x + 5) \div 10) <= 1
                   /\ Abs(c[2] - (y + 5) \div 10) <= 1
                   /\ grid[c].buildingType = "Defense"
                   /\ grid[c].level = l}

\* what those tiles take from a hostile at (x, y) in one tick
BlockDamage(x, y) ==
      5 * Cardinality(Turrets(x, y, 1)) + 10 * Cardinality(Turrets(x, y, 2))
    + 15 * Cardinality(Turrets(x, y, 3))

\* C31: in a hostile tick every hostile that is still on the field afterwards
\* has lost exactly 5 * level hp for each Defense tile in the in-bounds 3x3
\* block centred on its rounded position after the move (nothing when the
\* block holds no Defense tile), and a hostile that left the field stood,
\* after a move of at most one step per axis, where that damage took its hp
\* to 0 or below.
C31_DefenseTilesInBlockAddUp ==
    [][HostileTickStep =>
         /\ \A j \in 1 .. Len(enemies') :
               \E i \in 1 .. Len(Processed) :
                  /\ Processed[i].id = enemies'[j].id
                  /\ enemies'[j].hp
                        = Processed[i].hp - BlockDamage(enemies'[j].x, enemies'[j].y)
         /\ \A i \in 1 .. Len(Processed) :
               (\A j \in 1 .. Len(enemies') : enemies'[j].id # Processed[i].id)
               => \E dx \in {0 - 1, 0, 1}, dy \in {0 - 1, 0, 1} :
                     Processed[i].hp
                        <= BlockDamage(Processed[i].x + dx, Processed[i].y + dy)]_vars

\* a hostile tick in which the hostile below both Defense tiles lost 5 for
\* the one of level 1 and 10 for the one of level 2, while another hostile,
\* out of their reach, kept its hp
C31_Witness ==
    /\ last.op = "hostile"
    /\ \E i, j \in 1 .. Len(enemies) :
          /\ Cardinality(Turrets(enemies[i].x, enemies[i].y, 1)) = 1
          /\ Cardinality(Turrets(enemies[i].x, enemies[i].y, 2)) = 1
          /\ enemies[i].hp = enemies[i].maxHp - 15
          /\ BlockDamage(enemies[j].x, enemies[j].y) = 0
          /\ enemies[j].hp = enemies[j].maxHp

----------------------------------------------------------------------------
(* The agent click (checked under SpecFort) *)

\* the step is a run of handleEnemyClick
EnemyClickStep == steps' # steps /\ last'.op = "agent"

\* where the hostile with this id stands in the list before the step
PlaceOf(id) == CHOOSE i \in 1 .. Len(enemies) : enemies[i].id = id

\* C32: the agent click takes exactly 20 hp from the hostile with the given
\* id and removes it from the list if its hp is then <= 0; every other hostile
\* stays as it was and where it was in the list, the ledger and the grid are
\* unchanged, and a click whose id matches no hostile changes nothing.
C32_ClickHurtsOnlyItsHostile ==
    [][EnemyClickStep =>
         LET id == last'.x
             felled == {i \in 1 .. Len(enemies) :
                          enemies[i].id = id /\ enemies[i].hp - 20 <= 0}
         IN /\ stats' = stats /\ grid' = grid /\ boats' = boats
            /\ newsFeed' = newsFeed /\ currentGoal' = currentGoal
            /\ Len(enemies') = Len(enemies) - Cardinality(felled)
            /\ \A i \in 1 .. Len(enemies) :
                  IF enemies[i].id # id
                  THEN \E j \in 1 .. Len(enemies') : enemies'[j] = enemies[i]
                  ELSE IF i \in felled
                  THEN \A j \in 1 .. Len(enemies') : enemies'[j].id # id
                  ELSE \E j \in 1 .. Len(enemies') :
                          enemies'[j] = [enemies[i] EXCEPT !.hp = @ - 20]
            /\ \A j, k \in 1 .. Len(enemies') :
                  j < k => PlaceOf(enemies'[j].id) < PlaceOf(enemies'[k].id)
            /\ (\A i \in 1 .. Len(enemies) : enemies[i].id # id)
                  => enemies' = enemies]_vars

\* two hostiles had appeared; a click felled the one the Defense tiles had
\* worn down to 20 hp or less, the other is still on the field
C32_Witness ==
    /\ last.op = "agent" /\ last.outcome = "hit"
    /\ nextId = 2
    /\ Len(enemies) = 1
    /\ enemies[1].id # last.x

----------------------------------------------------------------------------
(* The writers of the ledger (checked under SpecLedger) *)

\* the Industrial tiles of level l that stand on the resource res
Works(res, l) ==
    {c \in Cells : /\ grid[c].buildingType = "Industrial"
                   /\ grid[c].resourceType = res
                   /\ grid[c].level = l}

\* what the Industrial tiles on the resource res yield per tick and level step
Yield(res) ==
    Cardinality(Works(res, 1)) + 2 * Cardinality(Works(res, 2))
        + 3 * Cardinality(Works(res, 3))

\* the ledger s with money, wood and stone moved by these amounts
Moved(s, m, w, st) == [s EXCEPT !.money = @ + m, !.wood = @ + w, !.stone = @ + st]

\* C33: every step writes the ledger as a change of the ledger the step
\* found, whatever the snapshot statsRef holds: a build or an upgrade takes
\* its cost, a demolish 5 money and grants 10 wood on Forest, an economy tick
\* adds the yield of the Industrial tiles and the income, a hostile tick takes
\* 10 money and 5 food per theft (floored at 0), an explorer tick grants 20
\* wood and 10 stone per revealed Forest and Stone tile and 50 money per
\* rewarded reveal, a claim adds the reward; every other step, and every
\* other field, leaves the ledger as it was.
C33_NoLedgerUpdateIsLost ==
    [][LET c == <<last'.x, last'.y>>
           handler == IF steps' # steps THEN last'.op ELSE "none"
       IN CASE handler = "click" /\ last'.outcome \in {"built", "upgraded"} ->
                 LET cost == CommandCost(grid, c)
                 IN stats' = Moved(stats, 0 - cost.money, 0 - cost.wood, 0 - cost.stone)
            [] handler = "click" /\ last'.outcome = "demolished" ->
                 stats' = Moved(stats, 0 - 5,
                                IF grid[c].resourceType = "Forest" THEN 10 ELSE 0, 0)
            [] handler = "economy" ->
                 /\ stats'.wood = stats.wood + 5 * Yield("Forest")
                 /\ stats'.stone = stats.stone + 3 * Yield("Stone")
                 /\ stats'.money = (100 * stats.money + Sweep(grid).income100) \div 100
                 /\ stats'.day = stats.day + 1
            [] handler = "hostile" ->
                 \E k \in 0 .. Len(enemies) :
                    stats' = [stats EXCEPT !.money = Max(0, @ - 10 * k),
                                           !.food = Max(0, @ - 5 * k)]
            [] handler = "explorer" ->
                 \E k \in 0 .. Len(boats) :
                    stats' = Moved(stats, 50 * k,
                       20 * Cardinality({d \in Revealed : grid[d].resourceType = "Forest"}),
                       10 * Cardinality({d \in Revealed : grid[d].resourceType = "Stone"}))
            [] handler = "claim" /\ last'.outcome = "claimed" ->
                 stats' = Moved(stats, currentGoal.reward, 0, 0)
            [] OTHER -> stats' = stats]_vars

\* an economy tick, a theft and the build of a Farm at (1,0) ran in a row, no
\* render in between: the ledger holds the day and the wood of the tick, the
\* food less the meal and the theft, and the wood less the Farm's cost
C33_Witness ==
    /\ last.op = "click" /\ last.outcome = "built" /\ last.tool = "Farm"
    /\ steps = 0
    /\ stats.day = VillageLedger(20, 200).day + 1
    /\ stats.wood = VillageLedger(20, 200).wood + 5 - BUILDINGS["Farm"].costWood
    /\ stats.food = 200 - 4 - 5

----------------------------------------------------------------------------
(* The fog never returns (checked under SpecExplore) *)

\* C34: no step turns an explored tile back to unexplored, and the grid a
\* later command will read from gridRef shows every explored tile as explored:
\* a tile that an explorer tick has revealed stays explored through every
\* build, upgrade and demolish that follows, rendered in between or not.
C34_ExploredStaysExplored ==
    [][\A c \in Cells :
          /\ grid[c].explored => grid'[c].explored
          /\ grid'[c].explored => gridRef'[c].explored]_vars

\* an explorer tick lifted the fog from the sea tile in the corner, then a
\* Road was built at (1,1): the corner is still explored
C34_Witness ==
    /\ last.op = "click" /\ last.outcome = "built"
    /\ last.x = 1 /\ last.y = 1
    /\ ~createInitialGrid[<<GRID_SIZE - 1, GRID_SIZE - 1>>].explored
    /\ grid[<<GRID_SIZE - 1, GRID_SIZE - 1>>].explored

----------------------------------------------------------------------------
(* The buildings stay where they were placed (checked under SpecLedger) *)

\* C35: a step changes the buildingType of a tile only if it is a tile
\* command on that very tile that either builds the selected tool on a tile
\* without a building or demolishes the building with the tool None: ticks,
\* upgrades, agent clicks, claims and commands on other tiles leave every
\* placed building.
C35_BuildingsChangeOnlyByBuildOrDemolish ==
    [][\A c \in Cells :
          grid'[c].buildingType # grid[c].buildingType
          => /\ TileClickStep
             /\ c = <<last'.x, last'.y>>
             /\ \/ /\ last'.outcome = "built"
                   /\ grid[c].buildingType = "None"
                   /\ selectedTool # "None"
                   /\ grid'[c].buildingType = selectedTool
                \/ /\ last'.outcome = "demolished"
                   /\ selectedTool = "None"
                   /\ grid[c].buildingType # "None"
                   /\ grid'[c].buildingType = "None"]_vars

\* the Industrial at (0,0) was demolished and a Farm built in its place, then
\* a Farm at (1,0): both Farms stand, and so do the Residential and the Port
C35_Witness ==
    /\ last.op = "click" /\ last.outcome = "built"
    /\ grid[<<0, 0>>].buildingType = "Farm"
    /\ grid[<<1, 0>>].buildingType = "Farm"
    /\ grid[<<1, 1>>].buildingType = "Residential"
    /\ grid[HarbourCell].buildingType = "Port"

----------------------------------------------------------------------------
(* The end of the voyage (checked under SpecSail) *)

AllExplored == \A c \in Cells : grid[c].explored

\* C36: with an explorer on the map and the explorer tick running again and
\* again, every tile of the grid is explored in the end; from then on an
\* explorer tick changes neither the explorers nor the grid nor the ledger.
C36_EveryTileExploredInTheEnd ==
    /\ (Len(boats) > 0) ~> AllExplored
    /\ [][(AllExplored /\ last'.op = "explorer")
             => (boats' = boats /\ grid' = grid /\ stats' = stats)]_vars

\* the voyage is over: the whole grid is explored, the explorer at rest
\* after a tick that found nothing left to do
C36_Witness ==
    /\ AllExplored
    /\ Len(boats) > 0
    /\ last.op = "explorer" /\ last.outcome = "idle"

----------------------------------------------------------------------------
(* The level of a tile without a building (checked under SpecUpgrade) *)

\* C37: in every reachable state a tile without a building has level 1, in
\* the grid and in the grid held by gridRef.
C37_EmptyTileHasLevelOne ==
    \A c \in Cells :
       /\ grid[c].buildingType = "None" => grid[c].level = 1
       /\ gridRef[c].buildingType = "None" => gridRef[c].level = 1

\* the Road of level 2 at (1,1) was demolished: the tile holds no building
\* and is back at level 1
C37_Witness ==
    /\ last.op = "click" /\ last.outcome = "demolished"
    /\ last.x = 1 /\ last.y = 1
    /\ LevelTwoGrid[<<1, 1>>].level = 2
    /\ stats.money = LevelTwoLedger.money - DEMOLISH_COST
    /\ grid[<<1, 1>>].buildingType = "None"
    /\ grid[<<1, 1>>].level = 1

----------------------------------------------------------------------------
(* No hostiles for an empty city (checked under Spec) *)

\* C38: a hostile tick that reads population 0 from statsRef creates no
\* hostile, and while the population read is 0 an empty hostile list stays
\* empty, whatever step is taken.
C38_NoSpawnAtPopulationZero ==
    [][/\ (HostileTickStep /\ statsRef.population = 0)
            => (nextId' = nextId /\ Len(enemies') <= Len(enemies))
       /\ (enemies = <<>> /\ statsRef.population = 0) => enemies' = <<>>]_vars

\* a hostile tick ran when the first economy tick had raised the population
\* and the render had not yet refreshed statsRef: it read 0 and the field is
\* still empty
C38_Witness ==
    /\ last.op = "hostile"
    /\ stats.population > 0
    /\ statsRef.population = 0
    /\ enemies = <<>>
    /\ nextId = 0

----------------------------------------------------------------------------
(* The cooldown of a hostile (checked under SpecRaid) *)

\* the hostile e stands less than 1.0 from a building that is not a Road
InAttackRange(e) ==
    \E c \in Cells :
       /\ grid[c].buildingType \notin {"None", "Road"}
       /\ Abs(e.x - 10 * c[1]) + Abs(e.y - 10 * c[2]) < 10

\* C39: the attackCooldown of every hostile is an integer in 0..5; a hostile
\* tick sets it to 5 if it was 0 and the hostile stood within 1.0 of a target,
\* and otherwise lowers it by 1, down to 0.
C39_CooldownRunsDownEveryTick ==
    /\ [](\A i \in 1 .. Len(enemies) : enemies[i].attackCooldown \in 0 .. 5)
    /\ [][HostileTickStep =>
            \A j \in 1 .. Len(enemies') :
               \E i \in 1 .. Len(Processed) :
                  /\ Processed[i].id = enemies'[j].id
                  /\ enemies'[j].attackCooldown =
                        IF Processed[i].attackCooldown = 0 /\ InAttackRange(Processed[i])
                        THEN 5
                        ELSE Max(0, Processed[i].attackCooldown - 1)]_vars

----------------------------------------------------------------------------
(* Stockpile goals *)

StockpileGoal(goal) == goal.present /\ goal.targetType = "resource_stockpile"

\* C40: a goal whose targetType is resource_stockpile is never marked
\* completed, whatever the ledger holds, and once it is the current goal it
\* stays the current goal: no step claims it or replaces it.
C40_StockpileGoalIsNeverCompleted ==
    /\ [](/\ StockpileGoal(currentGoal) => ~currentGoal.completed
          /\ StockpileGoal(goalRef) => ~goalRef.completed)
    /\ [][StockpileGoal(currentGoal) => currentGoal' = currentGoal]_vars

\* an economy tick has run with the oracle on and a stockpile goal whose
\* target the wood, the stone and the food all reach, and a claim followed
C40_Witness ==
    /\ aiEnabled
    /\ StockpileGoal(currentGoal) /\ goalRef = currentGoal
    /\ stats.wood >= currentGoal.targetValue
    /\ stats.stone >= currentGoal.targetValue
    /\ stats.food >= currentGoal.targetValue
    /\ stats.day > VillageLedger(0, 200).day
    /\ last.op = "claim"
====
